---------------------------- MODULE Spec2Model ----------------------------
(***************************************************************************)
(* Server-side response cache and structured items store of the Xtream     *)
(* proxy (app/lib/cache.server.ts) and the routes that drive it.           *)
(*                                                                         *)
(* Strings whose content the code inspects (cache keys, LIKE patterns,     *)
(* serialized JSON) are sequences of one-character strings, so that        *)
(* String.includes, SQL LIKE, JSON.stringify and JSON.parse are computed.  *)
(* Timestamps are epoch milliseconds, as returned by Date.now().           *)
(***************************************************************************)
EXTENDS Integers, Sequences, FiniteSets, TLC

VARIABLES
    cache,      \* rows of table "cache"
    items,      \* rows of table "items"
    now,        \* the wall clock read by Date.now()
    lastOp,     \* the operation performed by the last step, its argument and result
    stored,     \* history: per cache key, the value last passed to setCache
    lastKeys,   \* history: the (id, type) pairs of the latest storeItems call, {} once
                \* another operation has written the items table
    prevKeys,   \* history: the pairs of the storeItems call before that one, likewise
    sync,       \* position and partial results of the full resync in progress
    ttlKey,     \* input of the TTL policy resolver
    ttlOut,     \* its output (0 while not yet computed)
    proxy,      \* the proxied request that is awaiting its upstream fetch, if any
    db,         \* the module variable db: the open handle, or NoHandle for null
    conns,      \* the connections to the database file that are open, and how many
                \* have been created so far
    txn,        \* the storeItems transaction in progress on the connection, if any
    hook        \* the React state of the useSearch hook in the browser, its debounce
                \* timer and the searches it is awaiting

vars == <<cache, items, now, lastOp, stored, lastKeys, prevKeys, sync, ttlKey, ttlOut, proxy,
         db, conns, txn, hook>>

itemVars == <<items, lastKeys, prevKeys, sync>>
ttlVars == <<ttlKey, ttlOut>>
connVars == <<db, conns>>

----------------------------------------------------------------------------
(* Bounds *)

MaxFine == 1        \* 1 ms clock steps allowed after each 6 h boundary
MaxCoarse == 2      \* 6 h clock steps
MaxHits == 1        \* cache hits counted per entry
MaxBatch == 2       \* items per storeItems batch
MaxListing == 2     \* elements per upstream listing
MaxItemsNow == 1    \* clock range while exercising the items table

----------------------------------------------------------------------------
(* Text *)

M_VOD_CATEGORIES ==
    <<"g", "e", "t", "_", "v", "o", "d", "_", "c", "a", "t", "e", "g", "o", "r", "i", "e", "s">>
M_SERIES_CATEGORIES ==
    <<"g", "e", "t", "_", "s", "e", "r", "i", "e", "s", "_", "c", "a", "t", "e", "g", "o", "r", "i", "e", "s">>
M_SERIES_INFO ==
    <<"g", "e", "t", "_", "s", "e", "r", "i", "e", "s", "_", "i", "n", "f", "o">>
M_SERIES ==
    <<"g", "e", "t", "_", "s", "e", "r", "i", "e", "s">>
F_VOD_STREAMS ==
    <<"g", "e", "t", "_", "v", "o", "d", "_", "s", "t", "r", "e", "a", "m", "s">>
F_LIVE_CATEGORIES ==
    <<"g", "e", "t", "_", "l", "i", "v", "e", "_", "c", "a", "t", "e", "g", "o", "r", "i", "e", "s">>
F_UPPER_SERIES_INFO ==
    <<"G", "E", "T", "_", "S", "E", "R", "I", "E", "S", "_", "I", "N", "F", "O">>
F_SERIES_INF ==
    <<"g", "e", "t", "_", "s", "e", "r", "i", "e", "s", "_", "i", "n", "f">>
F_VOD_CATEGORIE ==
    <<"g", "e", "t", "_", "v", "o", "d", "_", "c", "a", "t", "e", "g", "o", "r", "i", "e">>
KeyPrefix ==
    <<"h", "t", "t", "p", ":", "/", "/", "h", "/", "?", "a", "c", "t", "i", "o", "n", "=">>
P_GET_VOD ==
    <<"g", "e", "t", "_", "v", "o", "d">>
P_UPPER_GET_VOD ==
    <<"G", "E", "T", "_", "V", "O", "D">>
P_ACTION_GET ==
    <<"a", "c", "t", "i", "o", "n", "_", "g", "e", "t", "_", "s", "e", "r", "i", "e", "s">>
P_GET ==
    <<"g", "e", "t", "_">>
UpperAZ ==
    <<"A", "B", "C", "D", "E", "F", "G", "H", "I", "J", "K", "L", "M", "N", "O", "P", "Q", "R", "S", "T", "U", "V", "W", "X", "Y", "Z">>
LowerAZ ==
    <<"a", "b", "c", "d", "e", "f", "g", "h", "i", "j", "k", "l", "m", "n", "o", "p", "q", "r", "s", "t", "u", "v", "w", "x", "y", "z">>
Digits ==
    <<"0", "1", "2", "3", "4", "5", "6", "7", "8", "9">>
T_NULL ==
    <<"n", "u", "l", "l">>
T_TRUE ==
    <<"t", "r", "u", "e">>
T_FALSE ==
    <<"f", "a", "l", "s", "e">>

Range(s) == {s[i] : i \in 1..Len(s)}

\* s.startsWith(m)
StartsWith(s, m) == Len(m) <= Len(s) /\ SubSeq(s, 1, Len(m)) = m

\* String.prototype.includes: m occurs in s at some position (case-sensitive)
includes(s, m) ==
    \E i \in 1..(Len(s) - Len(m) + 1) : SubSeq(s, i, i + Len(m) - 1) = m

\* ASCII case folding, as applied by SQLite's LIKE
ToLower(c) ==
    IF \E i \in 1..Len(UpperAZ) : UpperAZ[i] = c
    THEN LowerAZ[CHOOSE i \in 1..Len(UpperAZ) : UpperAZ[i] = c]
    ELSE c

\* SQLite "s LIKE p" without ESCAPE: % matches any run of characters, _ matches
\* exactly one character, any other character matches itself ignoring ASCII case
RECURSIVE Like(_, _)
Like(p, s) ==
    IF p = <<>> THEN s = <<>>
    ELSE IF Head(p) = "%"
         THEN \E i \in 0..Len(s) : Like(Tail(p), SubSeq(s, i + 1, Len(s)))
         ELSE /\ s # <<>>
              /\ (Head(p) = "_" \/ ToLower(Head(p)) = ToLower(Head(s)))
              /\ Like(Tail(p), Tail(s))

----------------------------------------------------------------------------
(* JSON values: null, booleans, non-negative integers, strings without     *)
(* escapes, arrays.  v holds the digits, the characters or the elements.   *)

JNull == [t |-> "null", v |-> <<>>]
JTrue == [t |-> "true", v |-> <<>>]
JFalse == [t |-> "false", v |-> <<>>]
JNum(digits) == [t |-> "num", v |-> digits]
JStr(chars) == [t |-> "str", v |-> chars]
JArr(elems) == [t |-> "arr", v |-> elems]

RECURSIVE JSON_stringify(_)
RECURSIVE StringifyElems(_)
StringifyElems(elems) ==
    IF elems = <<>> THEN <<>>
    ELSE IF Len(elems) = 1 THEN JSON_stringify(elems[1])
    ELSE JSON_stringify(elems[1]) \o <<",">> \o StringifyElems(Tail(elems))

JSON_stringify(j) ==
    CASE j.t = "null" -> T_NULL
      [] j.t = "true" -> T_TRUE
      [] j.t = "false" -> T_FALSE
      [] j.t = "num" -> j.v
      [] j.t = "str" -> <<"\"">> \o j.v \o <<"\"">>
      [] j.t = "arr" -> <<"[">> \o StringifyElems(j.v) \o <<"]">>

\* Longest prefix of s made of characters of set cs
RECURSIVE TakeWhile(_, _)
TakeWhile(s, cs) ==
    IF s # <<>> /\ Head(s) \in cs THEN <<Head(s)>> \o TakeWhile(Tail(s), cs) ELSE <<>>

Drop(s, n) == SubSeq(s, n + 1, Len(s))

ParseFail == [ok |-> FALSE, val |-> JNull, rest |-> <<>>]

\* Recursive-descent parser: the value at the front of s and what follows it
RECURSIVE ParseValue(_)
RECURSIVE ParseElems(_, _)
ParseElems(s, acc) ==
    LET e == ParseValue(s) IN
    IF ~e.ok THEN ParseFail
    ELSE IF e.rest # <<>> /\ Head(e.rest) = ","
         THEN ParseElems(Tail(e.rest), Append(acc, e.val))
    ELSE IF e.rest # <<>> /\ Head(e.rest) = "]"
         THEN [ok |-> TRUE, val |-> JArr(Append(acc, e.val)), rest |-> Tail(e.rest)]
    ELSE ParseFail

ParseValue(s) ==
    IF s = <<>> THEN ParseFail
    ELSE IF StartsWith(s, T_NULL) THEN [ok |-> TRUE, val |-> JNull, rest |-> Drop(s, 4)]
    ELSE IF StartsWith(s, T_TRUE) THEN [ok |-> TRUE, val |-> JTrue, rest |-> Drop(s, 4)]
    ELSE IF StartsWith(s, T_FALSE) THEN [ok |-> TRUE, val |-> JFalse, rest |-> Drop(s, 5)]
    ELSE IF Head(s) \in Range(Digits)
         THEN LET d == TakeWhile(s, Range(Digits)) IN
              IF Len(d) > 1 /\ Head(d) = "0" THEN ParseFail
              ELSE [ok |-> TRUE, val |-> JNum(d), rest |-> Drop(s, Len(d))]
    ELSE IF Head(s) = "\""
         THEN LET body == TakeWhile(Tail(s), Range(LowerAZ) \cup Range(UpperAZ)) IN
              IF Len(s) >= Len(body) + 2 /\ s[Len(body) + 2] = "\""
              THEN [ok |-> TRUE, val |-> JStr(body), rest |-> Drop(s, Len(body) + 2)]
              ELSE ParseFail
    ELSE IF Head(s) = "["
         THEN IF Len(s) >= 2 /\ s[2] = "]"
              THEN [ok |-> TRUE, val |-> JArr(<<>>), rest |-> Drop(s, 2)]
              ELSE ParseElems(Tail(s), <<>>)
    ELSE ParseFail

\* JSON.parse(text): the value, or a SyntaxError
JSON_parse(text) ==
    LET p == ParseValue(text) IN
    IF p.ok /\ p.rest = <<>> THEN [ok |-> TRUE, val |-> p.val]
    ELSE [ok |-> FALSE, val |-> JNull]

\* Payloads the upstream hands to setCache
JsonValues ==
    { JNull,
      JArr(<<JNum(<<"7">>), JStr(<<"a">>)>>) }

----------------------------------------------------------------------------
(* JavaScript values of the upstream payloads and of CachedItem fields *)

NULL == "<null>"
UNDEFINED == "<undefined>"

\* a number, a numeric string, or a missing property
Num(n) == [k |-> "number", n |-> n]
Str(n) == [k |-> "string", n |-> n]
Missing == [k |-> "undefined", n |-> 0]

\* x || null for a string-valued x
OrNull(x) == IF x \in {"", NULL, UNDEFINED} THEN NULL ELSE x

\* truthiness of an id (0 and a missing property are falsy)
TruthyId(x) == (x.k = "number" /\ x.n # 0) \/ x.k = "string"

\* truthiness of a string-valued property
TruthyStr(x) == x \notin {"", NULL, UNDEFINED}

\* String(x) of a number or of a numeric string
String(x) == ToString(x.n)

\* no proxied request is awaiting its fetch
ProxyIdle == [pc |-> "idle", key |-> <<>>]

\* the fetch results and counters of a resync that has not started
SyncIdle ==
    [pc |-> "idle",
     results |-> [vod |-> [fetched |-> 0, stored |-> 0, errors |-> <<>>],
                  series |-> [fetched |-> 0, stored |-> 0, errors |-> <<>>]]]

----------------------------------------------------------------------------
(* Store handle: `let db = null` and getDatabase()                         *)

\* db === null
NoHandle == 0

\* the database file before any connection to it has been opened
NoConnections == [open |-> {}, created |-> 0, fresh |-> FALSE]

\* pagination === null in the state of useSearch
NoPagination == [none |-> TRUE]

\* useSearch after its first render: the initial state, and the debounce timer the
\* effect has set for the initial query ""
HookMounted ==
    [query |-> <<>>, items |-> <<>>, isLoading |-> FALSE, error |-> "<null>",
     pagination |-> NoPagination, totalCount |-> 0, searchType |-> "all",
     timer |-> TRUE, inflight |-> {}]

\* no storeItems transaction is running
TxIdle == [pc |-> "idle", rows |-> {}, pending |-> <<>>, batch |-> <<>>, before |-> {}]

\* getDatabase() of an operation that reaches it (used): when db is null a connection
\* is opened and kept in db, otherwise the handle kept in db is returned; fresh tells
\* which of the two the latest call did
getDatabase(used) ==
    IF ~used THEN UNCHANGED <<db, conns>>
    ELSE IF db = NoHandle
    THEN /\ db' = conns.created + 1
         /\ conns' = [open |-> conns.open \cup {conns.created + 1},
                      created |-> conns.created + 1, fresh |-> TRUE]
    ELSE /\ db' = db
         /\ conns' = [conns EXCEPT !.fresh = FALSE]

\* CREATE TABLE IF NOT EXISTS, run by getDatabase() on a fresh connection: an existing
\* table keeps its rows, a missing one is created empty
CreateTableIfNotExists(exists, rows) == IF exists THEN rows ELSE {}

\* the tables as the operation that calls getDatabase() finds them (the file holds the
\* tables from the first connection on)
CacheTable ==
    IF db = NoHandle THEN CreateTableIfNotExists(conns.created > 0, cache) ELSE cache
ItemsTable ==
    IF db = NoHandle THEN CreateTableIfNotExists(conns.created > 0, items) ELSE items

\* mutant: db = null without db.close()
CloseConnection_leak(open, handle) == open

\* db.close()
CloseConnection(open, handle) == open \ {handle}

----------------------------------------------------------------------------
(* TTL policy *)

CACHE_TTL_CATEGORIES == 24 * 60 * 60 * 1000
CACHE_TTL_STREAMS == 12 * 60 * 60 * 1000
CACHE_TTL_SERIES == 12 * 60 * 60 * 1000
CACHE_TTL_SERIES_INFO == 6 * 60 * 60 * 1000

\* mutant: the series-detail test placed before the categories test
getTTL_infoFirst(key) ==
    IF includes(key, M_SERIES_INFO) THEN CACHE_TTL_SERIES_INFO
    ELSE IF includes(key, M_VOD_CATEGORIES) \/ includes(key, M_SERIES_CATEGORIES)
    THEN CACHE_TTL_CATEGORIES
    ELSE IF includes(key, M_SERIES) THEN CACHE_TTL_SERIES
    ELSE CACHE_TTL_STREAMS

getTTL(key) ==
    IF includes(key, M_VOD_CATEGORIES) \/ includes(key, M_SERIES_CATEGORIES)
    THEN CACHE_TTL_CATEGORIES
    ELSE IF includes(key, M_SERIES_INFO) THEN CACHE_TTL_SERIES_INFO
    ELSE IF includes(key, M_SERIES) THEN CACHE_TTL_SERIES
    ELSE CACHE_TTL_STREAMS

----------------------------------------------------------------------------
(* Response cache: table cache(key PRIMARY KEY, value, expires_at,         *)
(* created_at, hit_count, last_accessed)                                   *)

K_INFO == KeyPrefix \o M_SERIES_INFO
K_VOD == KeyPrefix \o F_VOD_STREAMS
CacheKeys == {K_INFO, K_VOD}

Patterns == {P_GET_VOD, P_UPPER_GET_VOD, P_ACTION_GET, P_GET}

\* lastOp.pre: the rows of the table the operation works on, as they were before it
NoOp == [op |-> "init", arg |-> <<>>, val |-> JNull, ret |-> JNull, pre |-> {}]

Unset == [t |-> "unset", v |-> <<>>]

\* SELECT ... FROM cache WHERE key = ?
SelectCache(c, key) == {r \in c : r.key = key}

\* mutant: an upsert that updates the row in place and keeps its hit_count
InsertOrReplaceCache_keepHits(c, row) ==
    {r \in c : r.key # row.key} \cup
        {[row EXCEPT !.hit_count =
             IF \E r \in c : r.key = row.key
             THEN (CHOOSE r \in c : r.key = row.key).hit_count ELSE 0]}

\* INSERT OR REPLACE INTO cache: a row with the same primary key is replaced
InsertOrReplaceCache(c, row) == {r \in c : r.key # row.key} \cup {row}

\* DELETE FROM cache WHERE key = ?
DeleteCacheKey(c, key) == {r \in c : r.key # key}

\* mutant: DELETE FROM cache WHERE expires_at <= ?
DeleteExpired_inclusive(c, t) == {r \in c : ~(r.expires_at <= t)}

\* DELETE FROM cache WHERE expires_at < ?
DeleteExpired(c, t) == {r \in c : ~(r.expires_at < t)}

\* DELETE FROM cache WHERE key LIKE ?  with the parameter `%${pattern}%`
DeleteLike(c, pattern) == {r \in c : ~Like(<<"%">> \o pattern \o <<"%">>, r.key)}

\* mutant: DELETE FROM cache WHERE hit_count = 0
DeleteAllCache_unusedOnly(c) == {r \in c : r.hit_count # 0}

\* DELETE FROM cache
DeleteAllCache(c) == {}

\* mutant: the UPDATE without its WHERE clause
UpdateHit_everyRow(c, t, key) ==
    {[r EXCEPT !.hit_count = @ + 1, !.last_accessed = t] : r \in c}

\* UPDATE cache SET hit_count = hit_count + 1, last_accessed = ? WHERE key = ?
UpdateHit(c, t, key) ==
    {IF r.key = key THEN [r EXCEPT !.hit_count = @ + 1, !.last_accessed = t] ELSE r : r \in c}

\* mutant: an expired entry is reported absent but not deleted
getCacheRows_keepExpired(c, t, key) ==
    LET rows == SelectCache(c, key) IN
    IF rows = {} THEN c
    ELSE LET row == CHOOSE r \in rows : TRUE IN
         IF t > row.expires_at THEN c
         ELSE UpdateHit(c, t, key)

\* the table after getCache(key) at time t
getCacheRows(c, t, key) ==
    LET rows == SelectCache(c, key) IN
    IF rows = {} THEN c
    ELSE LET row == CHOOSE r \in rows : TRUE IN
         IF t > row.expires_at THEN DeleteCacheKey(c, key)
         ELSE UpdateHit(c, t, key)

\* mutant: the expiry of the row is not compared with the current time
getCacheRet_serveExpired(c, t, key) ==
    LET rows == SelectCache(c, key) IN
    IF rows = {} THEN JNull
    ELSE LET p == JSON_parse((CHOOSE r \in rows : TRUE).value) IN
         IF p.ok THEN p.val ELSE JNull

\* the value getCache(key) returns at time t (null when absent, expired or unparsable)
getCacheRet(c, t, key) ==
    LET rows == SelectCache(c, key) IN
    IF rows = {} THEN JNull
    ELSE LET row == CHOOSE r \in rows : TRUE IN
         IF t > row.expires_at THEN JNull
         ELSE LET p == JSON_parse(row.value) IN
              IF p.ok THEN p.val ELSE JNull

getCache(key) ==
    /\ \A r \in SelectCache(CacheTable, key) : ~(now > r.expires_at) => r.hit_count < MaxHits
    /\ getDatabase(TRUE)
    /\ cache' = getCacheRows(CacheTable, now, key)
    /\ lastOp' = [op |-> "getCache", arg |-> key, val |-> JNull,
                  ret |-> getCacheRet(CacheTable, now, key), pre |-> CacheTable]
    /\ UNCHANGED <<now, stored, itemVars, ttlVars, txn, proxy, hook>>

\* mutant: expiresAt = getTTL(key), the current time left out
setCacheRows_ttlOnly(c, t, key, value) ==
    InsertOrReplaceCache(c,
        [key |-> key, value |-> JSON_stringify(value), expires_at |-> getTTL(key),
         created_at |-> t, hit_count |-> 0, last_accessed |-> t])

\* the table after setCache(key, value) at time t
setCacheRows(c, t, key, value) ==
    InsertOrReplaceCache(c,
        [key |-> key, value |-> JSON_stringify(value), expires_at |-> t + getTTL(key),
         created_at |-> t, hit_count |-> 0, last_accessed |-> t])

setCache(key, value) ==
    /\ getDatabase(TRUE)
    /\ cache' = setCacheRows(CacheTable, now, key, value)
    /\ lastOp' = [op |-> "setCache", arg |-> key, val |-> value, ret |-> JNull,
                  pre |-> CacheTable]
    /\ stored' = [stored EXCEPT ![key] = value]
    /\ UNCHANGED <<now, itemVars, ttlVars, txn, proxy, hook>>

clearCache ==
    /\ getDatabase(TRUE)
    /\ cache' = DeleteAllCache(CacheTable)
    /\ lastOp' = [op |-> "clearCache", arg |-> <<>>, val |-> JNull, ret |-> JNull,
                  pre |-> CacheTable]
    /\ UNCHANGED <<now, stored, itemVars, ttlVars, txn, proxy, hook>>

clearExpiredCache ==
    /\ getDatabase(TRUE)
    /\ cache' = DeleteExpired(CacheTable, now)
    /\ lastOp' = [op |-> "clearExpiredCache", arg |-> <<>>, val |-> JNull, ret |-> JNull,
                  pre |-> CacheTable]
    /\ UNCHANGED <<now, stored, itemVars, ttlVars, txn, proxy, hook>>

\* SELECT SUM(hit_count) FROM cache
RECURSIVE SumHits(_)
SumHits(S) ==
    IF S = {} THEN 0
    ELSE LET x == CHOOSE y \in S : TRUE IN x.hit_count + SumHits(S \ {x})

\* SELECT SUM(LENGTH(value)) FROM cache
RECURSIVE SumSize(_)
SumSize(S) ==
    IF S = {} THEN 0
    ELSE LET x == CHOOSE y \in S : TRUE IN Len(x.value) + SumSize(S \ {x})

\* the report of getCacheStats() at time t
CacheStats(c, t) ==
    [totalEntries |-> Cardinality(c),
     expiredEntries |-> Cardinality({r \in c : r.expires_at < t}),
     totalHits |-> SumHits(c),
     totalSize |-> SumSize(c)]

getCacheStats ==
    /\ getDatabase(TRUE)
    /\ cache' = CacheTable
    /\ lastOp' = [op |-> "getCacheStats", arg |-> <<>>, val |-> JNull,
                  ret |-> CacheStats(CacheTable, now), pre |-> CacheTable]
    /\ UNCHANGED <<now, stored, itemVars, ttlVars, txn, proxy, hook>>

invalidateCachePattern(pattern) ==
    /\ getDatabase(TRUE)
    /\ cache' = DeleteLike(CacheTable, pattern)
    /\ lastOp' = [op |-> "invalidateCachePattern", arg |-> pattern, val |-> JNull, ret |-> JNull,
                  pre |-> CacheTable]
    /\ UNCHANGED <<now, stored, itemVars, ttlVars, txn, proxy, hook>>

----------------------------------------------------------------------------
(* Clock *)

COARSE == CACHE_TTL_SERIES_INFO

\* Date.now() advances by d milliseconds between two operations
Tick(d) ==
    /\ now' = now + d
    /\ lastOp' = [op |-> "tick", arg |-> <<>>, val |-> JNull, ret |-> JNull, pre |-> {}]
    /\ UNCHANGED <<cache, stored, itemVars, ttlVars, txn, proxy, connVars, hook>>

TickFine == now % COARSE < MaxFine /\ Tick(1)
TickCoarse == now + COARSE <= MaxCoarse * COARSE + MaxFine /\ Tick(COARSE)

----------------------------------------------------------------------------
(* Specification of the response cache *)

Init ==
    /\ cache = {}
    /\ items = {}
    /\ now = 0
    /\ lastOp = NoOp
    /\ stored = [k \in CacheKeys |-> Unset]
    /\ lastKeys = {}
    /\ prevKeys = {}
    /\ sync = SyncIdle
    /\ ttlKey = <<>>
    /\ ttlOut = 0
    /\ proxy = ProxyIdle
    /\ db = NoHandle
    /\ conns = NoConnections
    /\ txn = TxIdle
    /\ hook = HookMounted

Next ==
    \/ \E key \in CacheKeys : getCache(key)
    \/ \E key \in CacheKeys, value \in JsonValues : setCache(key, value)
    \/ clearCache
    \/ clearExpiredCache
    \/ getCacheStats
    \/ \E pattern \in Patterns : invalidateCachePattern(pattern)
    \/ TickFine
    \/ TickCoarse

Spec == Init /\ [][Next]_vars

----------------------------------------------------------------------------
(* Items store: table items(id, stream_id, type CHECK(type IN ('vod',      *)
(* 'series')), name, poster_url, category_id, updated_at,                  *)
(* PRIMARY KEY (id, type)); id, stream_id, type, name, updated_at NOT NULL *)

ItemTypes == {"vod", "series"}

\* the row bound by storeItem / storeItems for a CachedItem at time t
ItemRow(item, t) ==
    [id |-> item.id, stream_id |-> item.stream_id, type |-> item.type, name |-> item.name,
     poster_url |-> OrNull(item.poster_url), category_id |-> OrNull(item.category_id),
     updated_at |-> t]

\* mutant: the table declared without CHECK(type IN ('vod', 'series'))
ConstraintsOk_noCheck(row) ==
    /\ row.id \notin {NULL, UNDEFINED}
    /\ row.stream_id \notin {NULL, UNDEFINED}
    /\ row.name \notin {NULL, UNDEFINED}

\* NOT NULL and CHECK constraints of table items
ConstraintsOk(row) ==
    /\ row.id \notin {NULL, UNDEFINED}
    /\ row.stream_id \notin {NULL, UNDEFINED}
    /\ row.name \notin {NULL, UNDEFINED}
    /\ row.type \in ItemTypes

\* mutant: INSERT OR IGNORE, the row already stored under (id, type) is kept
InsertOrReplaceItem_ignore(tbl, row) ==
    IF \E r \in tbl : r.id = row.id /\ r.type = row.type THEN tbl ELSE tbl \cup {row}

\* INSERT OR REPLACE INTO items: a row with the same (id, type) is replaced
InsertOrReplaceItem(tbl, row) ==
    {r \in tbl : ~(r.id = row.id /\ r.type = row.type)} \cup {row}

\* the statements of one storeItems transaction, run in order; ok is FALSE as soon as
\* one statement violates a constraint
RECURSIVE RunBatch(_, _)
RunBatch(tbl, rows) ==
    IF rows = <<>> THEN [ok |-> TRUE, rows |-> tbl]
    ELSE IF ~ConstraintsOk(Head(rows)) THEN [ok |-> FALSE, rows |-> tbl]
    ELSE RunBatch(InsertOrReplaceItem(tbl, Head(rows)), Tail(rows))

\* the table after storeItem(item) at time t (a constraint violation is caught and logged)
storeItemRows(tbl, item, t) ==
    IF ConstraintsOk(ItemRow(item, t)) THEN InsertOrReplaceItem(tbl, ItemRow(item, t)) ELSE tbl

\* the table after storeItems(batch) at time t: nothing for an empty batch, all rows or,
\* when one statement throws, none (the transaction is rolled back, the error logged)
storeItemsRows(tbl, batch, t) ==
    IF Len(batch) = 0 THEN tbl
    ELSE LET tx == RunBatch(tbl, [i \in 1..Len(batch) |-> ItemRow(batch[i], t)]) IN
         IF tx.ok THEN tx.rows ELSE tbl

\* The proxy and sync routes import storeItems from app/lib/cache, the revision of the
\* store whose items have no stream_id; the stream_id migration of getDatabase gives
\* such rows stream_id = id.
LegacyItem(item) ==
    [id |-> item.id, stream_id |-> item.id, type |-> item.type, name |-> item.name,
     poster_url |-> item.poster_url, category_id |-> item.category_id]

storeItemsLegacyRows(tbl, batch, t) ==
    storeItemsRows(tbl, [i \in 1..Len(batch) |-> LegacyItem(batch[i])], t)

\* mutant: the DELETE statement left out
clearItemsRows_noop(tbl, type) == tbl

\* DELETE FROM items WHERE type = ?
clearItemsRows(tbl, type) == {r \in tbl : r.type # type}

\* DELETE FROM items
clearAllItemsRows(tbl) == {}

\* CachedItem values handed to storeItem / storeItems
ItemPool ==
    { [id |-> "1", stream_id |-> "1", type |-> "vod", name |-> "Alpha",
       poster_url |-> "p1", category_id |-> "10"],
      [id |-> "1", stream_id |-> "1", type |-> "vod", name |-> "Beta",
       poster_url |-> NULL, category_id |-> "20"],
      [id |-> "1", stream_id |-> "9", type |-> "series", name |-> "Alpha",
       poster_url |-> NULL, category_id |-> NULL],
      [id |-> "2", stream_id |-> "2", type |-> "live", name |-> "Delta",
       poster_url |-> NULL, category_id |-> NULL] }

\* the (id, type) pairs of a batch
KeysOf(batch) == {<<batch[i].id, batch[i].type>> : i \in 1..Len(batch)}

\* sequences of at most n distinct elements of S
SeqsUpTo(S, n) ==
    {s \in UNION {[1..k -> S] : k \in 0..n} :
        \A i, j \in 1..Len(s) : i # j => s[i] # s[j]}

Batches == SeqsUpTo(ItemPool, MaxBatch)

storeItem(item) ==
    /\ getDatabase(TRUE)
    /\ items' = storeItemRows(ItemsTable, item, now)
    /\ lastOp' = [op |-> "storeItem", arg |-> <<>>, val |-> <<item>>, ret |-> JNull, pre |-> {}]
    /\ lastKeys' = {}
    /\ prevKeys' = {}
    /\ UNCHANGED <<cache, now, stored, sync, ttlVars, txn, proxy, hook>>

storeItems(batch) ==
    /\ getDatabase(Len(batch) > 0)
    /\ items' = storeItemsRows(ItemsTable, batch, now)
    /\ lastOp' = [op |-> "storeItems", arg |-> <<>>, val |-> batch, ret |-> JNull, pre |-> {}]
    /\ lastKeys' = KeysOf(batch)
    /\ prevKeys' = lastKeys
    /\ UNCHANGED <<cache, now, stored, sync, ttlVars, txn, proxy, hook>>

clearItems(type) ==
    /\ getDatabase(TRUE)
    /\ items' = clearItemsRows(ItemsTable, type)
    /\ lastOp' = [op |-> "clearItems", arg |-> type, val |-> <<>>, ret |-> JNull, pre |-> {}]
    /\ lastKeys' = {}
    /\ prevKeys' = {}
    /\ UNCHANGED <<cache, now, stored, sync, ttlVars, txn, proxy, hook>>

clearAllItems ==
    /\ getDatabase(TRUE)
    /\ items' = clearAllItemsRows(ItemsTable)
    /\ lastOp' = [op |-> "clearAllItems", arg |-> <<>>, val |-> <<>>, ret |-> JNull, pre |-> {}]
    /\ lastKeys' = {}
    /\ prevKeys' = {}
    /\ UNCHANGED <<cache, now, stored, sync, ttlVars, txn, proxy, hook>>

----------------------------------------------------------------------------
(* Opportunistic extraction (proxy route) and full resync (sync handler)   *)

\* elements of upstream listings
RawPool ==
    { [stream_id |-> Num(1), series_id |-> Missing, name |-> "Alpha",
       stream_icon |-> "p1", cover |-> UNDEFINED, category_id |-> "10"],
      [stream_id |-> Num(1), series_id |-> Missing, name |-> UNDEFINED,
       stream_icon |-> "p1", cover |-> UNDEFINED, category_id |-> "10"],
      [stream_id |-> Missing, series_id |-> Num(1), name |-> "Alpha",
       stream_icon |-> UNDEFINED, cover |-> "c1", category_id |-> "20"] }

Listings == SeqsUpTo(RawPool, MaxListing)

VodItem(e) ==
    [id |-> String(e.stream_id), type |-> "vod", name |-> e.name,
     poster_url |-> OrNull(e.stream_icon),
     category_id |-> IF TruthyStr(e.category_id) THEN e.category_id ELSE NULL]

SeriesItem(e) ==
    [id |-> String(e.series_id), type |-> "series", name |-> e.name,
     poster_url |-> OrNull(e.cover),
     category_id |-> IF TruthyStr(e.category_id) THEN e.category_id ELSE NULL]

\* type guards of extractAndStoreItems
IsVodShape(e) == e.stream_id.k = "number" /\ e.name # UNDEFINED
IsSeriesShape(e) == e.series_id.k = "number" /\ e.name # UNDEFINED

\* mutant: a payload holding an element that fails the guard is rejected wholesale
ExtractVodBatch_allOrNothing(s) ==
    IF \E i \in 1..Len(s) : ~IsVodShape(s[i]) THEN <<>>
    ELSE [i \in 1..Len(s) |-> VodItem(s[i])]

\* responseData.filter(guard).map(projection), per branch
ExtractVodBatch(s) ==
    LET kept == SelectSeq(s, IsVodShape) IN [i \in 1..Len(kept) |-> VodItem(kept[i])]

ExtractSeriesBatch(s) ==
    LET kept == SelectSeq(s, IsSeriesShape) IN [i \in 1..Len(kept) |-> SeriesItem(kept[i])]

A_GET_VOD_STREAMS == <<"a", "c", "t", "i", "o", "n", "=">> \o F_VOD_STREAMS
A_GET_SERIES == <<"a", "c", "t", "i", "o", "n", "=">> \o M_SERIES

K_SERIES == KeyPrefix \o M_SERIES
K_VOD_CATEGORIES == KeyPrefix \o M_VOD_CATEGORIES

\* extractAndStoreItems(responseData, url) reaches the statements of storeItems
ExtractWrites(responseData, url) ==
    IF includes(url, A_GET_VOD_STREAMS)
    THEN responseData.isArray /\ Len(ExtractVodBatch(responseData.elems)) > 0
    ELSE /\ includes(url, A_GET_SERIES)
         /\ responseData.isArray /\ Len(ExtractSeriesBatch(responseData.elems)) > 0

\* the table after extractAndStoreItems(responseData, url) at time t;
\* responseData is [isArray, elems]
extractAndStoreItemsRows(tbl, responseData, url, t) ==
    IF includes(url, A_GET_VOD_STREAMS)
    THEN IF responseData.isArray
         THEN LET batch == ExtractVodBatch(responseData.elems) IN
              IF Len(batch) > 0 THEN storeItemsLegacyRows(tbl, batch, t) ELSE tbl
         ELSE tbl
    ELSE IF includes(url, A_GET_SERIES)
    THEN IF responseData.isArray
         THEN LET batch == ExtractSeriesBatch(responseData.elems) IN
              IF Len(batch) > 0 THEN storeItemsLegacyRows(tbl, batch, t) ELSE tbl
         ELSE tbl
    ELSE tbl

Responses ==
    {[isArray |-> TRUE, elems |-> l] : l \in Listings} \cup {[isArray |-> FALSE, elems |-> <<>>]}

\* every response under the two listing urls, one listing under a categories url
ExtractInputs ==
    {<<r, url>> : r \in Responses, url \in {K_VOD, K_SERIES}}
        \cup {<<r, K_VOD_CATEGORIES>> : r \in {x \in Responses : Len(x.elems) = 1}}

extractAndStoreItems(responseData, url) ==
    /\ getDatabase(ExtractWrites(responseData, url))
    /\ items' = extractAndStoreItemsRows(ItemsTable, responseData, url, now)
    /\ lastOp' = [op |-> "extractAndStoreItems", arg |-> url, val |-> responseData,
                  ret |-> JNull, pre |-> {}]
    /\ lastKeys' = {}
    /\ prevKeys' = {}
    /\ UNCHANGED <<cache, now, stored, sync, ttlVars, txn, proxy, hook>>

\* mutant: the VOD filter looks at the id only
SyncVodOk_idOnly(e) == TruthyId(e.stream_id)

\* filters of syncAllContentHandler
SyncVodOk(e) == TruthyId(e.stream_id) /\ TruthyStr(e.name)
SyncSeriesOk(e) == TruthyId(e.series_id) /\ TruthyStr(e.name)

\* streams.filter(...).map(...) of each half of the resync
SyncVodBatch(s) ==
    LET kept == SelectSeq(s, SyncVodOk) IN [i \in 1..Len(kept) |-> VodItem(kept[i])]

SyncSeriesBatch(s) ==
    LET kept == SelectSeq(s, SyncSeriesOk) IN [i \in 1..Len(kept) |-> SeriesItem(kept[i])]

\* outcome of awaiting the upstream listing: the listing, or a thrown error
FetchOutcomes == {[ok |-> TRUE, data |-> l] : l \in Listings} \cup {[ok |-> FALSE, data |-> <<>>]}

\* one type's half of the resync reaches clearItems and storeItems
SyncWrites(outcome, batch) == outcome.ok /\ Len(outcome.data) > 0 /\ Len(batch) > 0

\* mutant: the rows of the type are cleared before the listing is awaited
SyncType_clearFirst(tbl, outcome, type, batch, t) ==
    IF ~outcome.ok
    THEN [rows |-> clearItemsRows(tbl, type),
          result |-> [fetched |-> 0, stored |-> 0, errors |-> <<"fetch failed">>]]
    ELSE IF Len(outcome.data) > 0 /\ Len(batch) > 0
    THEN [rows |-> storeItemsLegacyRows(clearItemsRows(tbl, type), batch, t),
          result |-> [fetched |-> Len(outcome.data), stored |-> Len(batch),
                      errors |-> <<>>]]
    ELSE [rows |-> tbl,
          result |-> [fetched |-> Len(outcome.data), stored |-> 0, errors |-> <<>>]]

\* one type's half of the resync: [rows, result]
SyncType(tbl, outcome, type, batch, t) ==
    IF ~outcome.ok
    THEN [rows |-> tbl,
          result |-> [fetched |-> 0, stored |-> 0, errors |-> <<"fetch failed">>]]
    ELSE IF Len(outcome.data) > 0 /\ Len(batch) > 0
    THEN [rows |-> storeItemsLegacyRows(clearItemsRows(tbl, type), batch, t),
          result |-> [fetched |-> Len(outcome.data), stored |-> Len(batch),
                      errors |-> <<>>]]
    ELSE [rows |-> tbl,
          result |-> [fetched |-> Len(outcome.data), stored |-> 0, errors |-> <<>>]]

\* first half of syncAllContentHandler: the VOD listing has been awaited
syncVod(outcome) ==
    /\ sync.pc = "idle"
    /\ getDatabase(SyncWrites(outcome, SyncVodBatch(outcome.data)))
    /\ LET r == SyncType(ItemsTable, outcome, "vod", SyncVodBatch(outcome.data), now) IN
          /\ items' = r.rows
          /\ sync' = [pc |-> "series", results |-> [sync.results EXCEPT !.vod = r.result]]
    /\ lastOp' = [op |-> "syncVod", arg |-> <<>>, val |-> outcome, ret |-> JNull,
                  pre |-> ItemsTable]
    /\ lastKeys' = {}
    /\ prevKeys' = {}
    /\ UNCHANGED <<cache, now, stored, ttlVars, txn, proxy, hook>>

\* second half: the Series listing has been awaited, the report is returned
syncSeries(outcome) ==
    /\ sync.pc = "series"
    /\ getDatabase(SyncWrites(outcome, SyncSeriesBatch(outcome.data)))
    /\ LET r == SyncType(ItemsTable, outcome, "series", SyncSeriesBatch(outcome.data), now)
           results == [sync.results EXCEPT !.series = r.result]
       IN /\ items' = r.rows
          /\ lastOp' = [op |-> "syncSeries", arg |-> <<>>, val |-> outcome,
                        ret |-> [success |-> results.vod.stored > 0 \/ results.series.stored > 0,
                                 results |-> results], pre |-> ItemsTable]
    /\ sync' = SyncIdle
    /\ lastKeys' = {}
    /\ prevKeys' = {}
    /\ UNCHANGED <<cache, now, stored, ttlVars, txn, proxy, hook>>

----------------------------------------------------------------------------
(* Specification of the items store *)

TickItems == now < MaxItemsNow /\ Tick(1)

NextItems ==
    \/ \E item \in ItemPool : storeItem(item)
    \/ \E batch \in Batches : storeItems(batch)
    \/ \E type \in ItemTypes : clearItems(type)
    \/ clearAllItems
    \/ \E in \in ExtractInputs : extractAndStoreItems(in[1], in[2])
    \/ \E outcome \in FetchOutcomes : syncVod(outcome)
    \/ \E outcome \in FetchOutcomes : syncSeries(outcome)
    \/ TickItems

SpecItems == Init /\ [][NextItems]_vars

----------------------------------------------------------------------------
(* Specification of the TTL policy resolver alone: every key made of two   *)
(* action fragments is resolved once.                                      *)

Fragments ==
    { <<>>, M_VOD_CATEGORIES, M_SERIES_CATEGORIES, M_SERIES_INFO, M_SERIES, F_VOD_STREAMS,
      F_LIVE_CATEGORIES, F_UPPER_SERIES_INFO, F_SERIES_INF, F_VOD_CATEGORIE }

TTLKeys == {KeyPrefix \o a \o <<"&">> \o b : a \in Fragments, b \in Fragments}

InitTTL ==
    /\ cache = {}
    /\ items = {}
    /\ now = 0
    /\ lastOp = NoOp
    /\ stored = [k \in CacheKeys |-> Unset]
    /\ lastKeys = {}
    /\ prevKeys = {}
    /\ sync = SyncIdle
    /\ ttlKey \in TTLKeys
    /\ ttlOut = 0
    /\ proxy = ProxyIdle
    /\ db = NoHandle
    /\ conns = NoConnections
    /\ txn = TxIdle
    /\ hook = HookMounted

ResolveTTL ==
    /\ ttlOut = 0
    /\ ttlOut' = getTTL(ttlKey)
    /\ UNCHANGED <<cache, now, lastOp, stored, itemVars, ttlKey, proxy, connVars, txn, hook>>

NextTTL == ResolveTTL

SpecTTL == InitTTL /\ [][NextTTL]_vars

----------------------------------------------------------------------------
(* Query engine over the items table: getItems, getItemCount, getItem,     *)
(* searchItems, getSearchCount, and the two read endpoints (api.items,     *)
(* api.search).                                                            *)

MaxLimit == 2       \* largest limit parameter sent by a client
MaxPage == 3        \* largest page parameter sent by a client

\* Number.NaN
NaN == [k |-> "NaN", n |-> 0]

\* truthiness of a number or undefined (0, NaN and undefined are falsy)
TruthyNum(x) == x.k = "number" /\ x.n # 0

\* a text-valued query-string parameter that is absent (searchParams.get gives null)
NoText == <<NULL>>

\* truthiness of a text-valued query-string parameter (null when absent, "" when empty)
TruthyText(p) == p # NoText /\ p # <<>>

\* the characters of the item names
Chars(name) ==
    CASE name = "Alpha" -> <<"A", "l", "p", "h", "a">>
      [] name = "Beta" -> <<"B", "e", "t", "a">>
      [] name = "Delta" -> <<"D", "e", "l", "t", "a">>
      [] name = "alps" -> <<"a", "l", "p", "s">>
      [] name = "Zed" -> <<"Z", "e", "d">>
      [] OTHER -> <<>>

\* characters in increasing code-point order (the part of ASCII the texts use)
Ascii == <<" ", "%", "-">> \o Digits \o UpperAZ \o <<"_">> \o LowerAZ

Code(c) == CHOOSE i \in 1..Len(Ascii) : Ascii[i] = c

\* a < b in SQLite's BINARY collation (memcmp, a proper prefix sorts first)
RECURSIVE TextLess(_, _)
TextLess(a, b) ==
    IF b = <<>> THEN FALSE
    ELSE IF a = <<>> THEN TRUE
    ELSE IF Head(a) = Head(b) THEN TextLess(Tail(a), Tail(b))
    ELSE Code(Head(a)) < Code(Head(b))

\* the text of a type column value
TypeText(type) == IF type = "vod" THEN <<"v", "o", "d">> ELSE <<"s", "e", "r", "i", "e", "s">>

\* row r sorts strictly before row q under ORDER BY name / ORDER BY type, name
SortsBefore(r, q, byType) ==
    IF byType /\ r.type # q.type THEN TextLess(TypeText(r.type), TypeText(q.type))
    ELSE TextLess(Chars(r.name), Chars(q.name))

\* the rows of S in ORDER BY order; rows with equal sort keys come out in an order
\* that is fixed for given table contents
RECURSIVE OrderBy(_, _)
OrderBy(S, byType) ==
    IF S = {} THEN <<>>
    ELSE LET m == CHOOSE r \in S : \A q \in S : ~SortsBefore(q, r, byType)
         IN <<m>> \o OrderBy(S \ {m}, byType)

\* mutant: OFFSET applied as a count of pages instead of a count of rows
LimitOffset_pageOffset(s, limit, offset) ==
    IF limit.k = "number" /\ limit.n > 0
    THEN LET skip == IF offset.k = "number" /\ offset.n > 0 THEN offset.n \div limit.n ELSE 0
         IN SubSeq(s, skip + 1, IF skip + limit.n < Len(s) THEN skip + limit.n ELSE Len(s))
    ELSE s

\* " LIMIT ?" appended when limit is a positive number, " OFFSET ?" when offset is too
LimitOffset(s, limit, offset) ==
    IF limit.k = "number" /\ limit.n > 0
    THEN LET skip == IF offset.k = "number" /\ offset.n > 0 THEN offset.n ELSE 0
         IN SubSeq(s, skip + 1, IF skip + limit.n < Len(s) THEN skip + limit.n ELSE Len(s))
    ELSE s

\* the columns selected by the read queries
SelectColumns(r) ==
    [id |-> r.id, stream_id |-> r.stream_id, type |-> r.type, name |-> r.name,
     poster_url |-> r.poster_url, category_id |-> r.category_id]

\* mutant: the category filter dropped from the WHERE clause
getItemsRows_anyCategory(tbl, type, categoryId, limit, offset) ==
    LET ordered == OrderBy({r \in tbl : r.type = type}, FALSE)
        page == LimitOffset(ordered, limit, offset)
    IN [i \in 1..Len(page) |-> SelectColumns(page[i])]

\* getItems(type, categoryId, limit, offset)
getItemsRows(tbl, type, categoryId, limit, offset) ==
    LET matching == IF TruthyStr(categoryId)
                    THEN {r \in tbl : r.type = type /\ r.category_id = categoryId}
                    ELSE {r \in tbl : r.type = type}
        page == LimitOffset(OrderBy(matching, FALSE), limit, offset)
    IN [i \in 1..Len(page) |-> SelectColumns(page[i])]

\* getItemCount(type)
getItemCountRows(tbl, type) ==
    IF TruthyStr(type) THEN Cardinality({r \in tbl : r.type = type}) ELSE Cardinality(tbl)

\* the null returned by getItem
NoItem == [null |-> TRUE]

\* mutant: the lookup keyed by id alone
getItemRow_anyType(tbl, id, type) ==
    IF \E r \in tbl : r.id = id
    THEN SelectColumns(CHOOSE r \in tbl : r.id = id)
    ELSE NoItem

\* getItem(id, type): the row, or null
getItemRow(tbl, id, type) ==
    IF \E r \in tbl : r.id = id /\ r.type = type
    THEN SelectColumns(CHOOSE r \in tbl : r.id = id /\ r.type = type)
    ELSE NoItem

\* String.prototype.trim (blanks are the only white space of the texts)
RECURSIVE TrimEnd(_)
TrimEnd(s) == IF s # <<>> /\ s[Len(s)] = " " THEN TrimEnd(SubSeq(s, 1, Len(s) - 1)) ELSE s

trim(s) == TrimEnd(Drop(s, Len(TakeWhile(s, {" "}))))

\* mutant: the guard tests the raw query only
IsBlankQuery_rawOnly(query) == query = <<>>

\* !query || query.trim().length === 0
IsBlankQuery(query) == query = <<>> \/ Len(trim(query)) = 0

\* the rows selected by the WHERE clause of searchItems / getSearchCount
SearchMatches(tbl, query, type) ==
    LET searchTerm == <<"%">> \o trim(query) \o <<"%">> IN
    IF TruthyStr(type)
    THEN {r \in tbl : r.type = type /\ Like(searchTerm, Chars(r.name))}
    ELSE {r \in tbl : Like(searchTerm, Chars(r.name))}

\* searchItems(query, type, limit, offset)
searchItemsRows(tbl, query, type, limit, offset) ==
    IF IsBlankQuery(query) THEN <<>>
    ELSE LET ordered == OrderBy(SearchMatches(tbl, query, type), ~TruthyStr(type))
             page == LimitOffset(ordered, limit, offset)
         IN [i \in 1..Len(page) |-> SelectColumns(page[i])]

\* getSearchCount(query, type)
getSearchCountRows(tbl, query, type) ==
    IF IsBlankQuery(query) THEN 0 ELSE Cardinality(SearchMatches(tbl, query, type))

\* value of a decimal digit
DigitValue(c) == (CHOOSE i \in 1..Len(Digits) : Digits[i] = c) - 1

RECURSIVE DigitsValue(_, _)
DigitsValue(ds, acc) ==
    IF ds = <<>> THEN acc ELSE DigitsValue(Tail(ds), 10 * acc + DigitValue(Head(ds)))

\* parseInt(s, 10): leading blanks and one sign are skipped, then the longest run of
\* digits is read and whatever follows is ignored; NaN when there is no digit
parseInt(s) ==
    LET t == Drop(s, Len(TakeWhile(s, {" "})))
        signed == t # <<>> /\ Head(t) \in {"-", "+"}
        ds == TakeWhile(IF signed THEN Tail(t) ELSE t, Range(Digits))
    IN IF ds = <<>> THEN NaN
       ELSE IF signed /\ Head(t) = "-" THEN Num(0 - DigitsValue(ds, 0))
       ELSE Num(DigitsValue(ds, 0))

\* Math.ceil(a / b) for a >= 0, b > 0
CeilDiv(a, b) == (a + b - 1) \div b

\* limit && page > 1 ? (page - 1) * limit : undefined
PageOffset(limit, page) ==
    IF TruthyNum(limit) /\ page.k = "number" /\ page.n > 1
    THEN Num((page.n - 1) * limit.n)
    ELSE Missing

\* isNaN(x) || x < 1
NotPositive(x) == x.k = "NaN" \/ (x.k = "number" /\ x.n < 1)

ErrorResponse(status, error) == [status |-> status, error |-> error]

\* mutant: the 400 answers are produced after the store has been read
Rejected_afterRead(status, error) ==
    [response |-> ErrorResponse(status, error), calls |-> <<"getItemCount">>]

\* an answer given without calling the store
Rejected(status, error) == [response |-> ErrorResponse(status, error), calls |-> <<>>]

\* loader of api.items for the request ?type=&id=&categoryId=&limit=&page= :
\* the response, and the store functions called to build it
ApiItems(tbl, type, id, categoryIdParam, limitParam, pageParam) ==
    LET categoryId == IF TruthyStr(categoryIdParam) THEN categoryIdParam ELSE UNDEFINED
        limit == IF TruthyText(limitParam) THEN parseInt(limitParam) ELSE Missing
        page == IF TruthyText(pageParam) THEN parseInt(pageParam) ELSE Num(1)
        offset == PageOffset(limit, page)
    IN IF ~TruthyStr(type) \/ (type # "vod" /\ type # "series")
       THEN Rejected(400, "Invalid or missing 'type' parameter. Must be 'vod' or 'series'")
       ELSE IF TruthyStr(id)
       THEN LET item == getItemRow(tbl, id, type) IN
            IF item = NoItem
            THEN [response |-> ErrorResponse(404, "Item not found"), calls |-> <<"getItem">>]
            ELSE [response |-> [status |-> 200, item |-> item], calls |-> <<"getItem">>]
       ELSE IF limit.k # "undefined" /\ NotPositive(limit)
       THEN Rejected(400, "Invalid 'limit' parameter. Must be a positive number.")
       ELSE IF NotPositive(page)
       THEN Rejected(400, "Invalid 'page' parameter. Must be a positive number.")
       ELSE LET totalCount == getItemCountRows(tbl, type)
                rows == getItemsRows(tbl, type, categoryId, limit, offset)
                totalPages == IF TruthyNum(limit) THEN CeilDiv(totalCount, limit.n) ELSE 1
            IN [response |->
                  [status |-> 200, items |-> rows, count |-> Len(rows),
                   totalCount |-> totalCount, type |-> type,
                   categoryId |-> OrNull(categoryId),
                   pagination |->
                     [page |-> IF TruthyNum(page) THEN page.n ELSE 1,
                      limit |-> IF TruthyNum(limit) THEN limit.n ELSE totalCount,
                      totalPages |-> totalPages,
                      hasNextPage |-> IF TruthyNum(limit) THEN page.n < totalPages ELSE FALSE,
                      hasPreviousPage |-> IF TruthyNum(limit) THEN page.n > 1 ELSE FALSE]],
                calls |-> <<"getItemCount", "getItems">>]

\* page size applied by api.search and searchItemsHandler when none is given
DEFAULT_SEARCH_LIMIT == 50

\* searchItemsHandler(query, {type, page, limit})
searchItemsHandler(tbl, query, searchType, pageOpt, limitOpt) ==
    LET page == IF TruthyNum(pageOpt) THEN pageOpt ELSE Num(1)
        limit == IF TruthyNum(limitOpt) THEN limitOpt ELSE Num(DEFAULT_SEARCH_LIMIT)
        offset == PageOffset(limit, page)
        rows == searchItemsRows(tbl, query, searchType, limit, offset)
        totalCount == getSearchCountRows(tbl, query, searchType)
        totalPages == IF TruthyNum(limit) THEN CeilDiv(totalCount, limit.n) ELSE 1
    IN [status |-> 200, items |-> rows, count |-> Len(rows), totalCount |-> totalCount,
        query |-> query, type |-> IF TruthyStr(searchType) THEN searchType ELSE "all",
        pagination |->
          [page |-> page.n, limit |-> limit.n, totalPages |-> totalPages,
           hasNextPage |-> IF TruthyNum(limit) THEN page.n < totalPages ELSE FALSE,
           hasPreviousPage |-> IF TruthyNum(limit) THEN page.n > 1 ELSE FALSE]]

\* loader of api.search for the request ?q=&type=&page=&limit=
ApiSearch(tbl, q, type, pageParam, limitParam) ==
    LET query == IF TruthyText(q) THEN q ELSE <<>>
        page == IF TruthyText(pageParam) THEN parseInt(pageParam) ELSE Num(1)
        limit == IF TruthyText(limitParam) THEN parseInt(limitParam)
                 ELSE Num(DEFAULT_SEARCH_LIMIT)
    IN IF NotPositive(page)
       THEN Rejected(400, "Invalid 'page' parameter. Must be a positive number.")
       ELSE IF NotPositive(limit)
       THEN Rejected(400, "Invalid 'limit' parameter. Must be a positive number.")
       ELSE IF TruthyStr(type) /\ type # "vod" /\ type # "series"
       THEN Rejected(400, "Invalid 'type' parameter. Must be 'vod' or 'series'.")
       ELSE [response |-> searchItemsHandler(tbl, query, type, page, limit),
             calls |-> IF IsBlankQuery(query) THEN <<>> ELSE <<"searchItems", "getSearchCount">>]

\* CachedItem values stored while the read endpoints are exercised
QueryPool ==
    { [id |-> "1", stream_id |-> "1", type |-> "vod", name |-> "Alpha",
       poster_url |-> "p1", category_id |-> "10"],
      [id |-> "1", stream_id |-> "1", type |-> "vod", name |-> "Beta",
       poster_url |-> NULL, category_id |-> "20"],
      [id |-> "2", stream_id |-> "2", type |-> "vod", name |-> "alps",
       poster_url |-> NULL, category_id |-> "10"],
      [id |-> "3", stream_id |-> "3", type |-> "vod", name |-> "Zed",
       poster_url |-> NULL, category_id |-> "20"],
      [id |-> "1", stream_id |-> "1", type |-> "series", name |-> "Alpha",
       poster_url |-> NULL, category_id |-> NULL] }

\* query-string values of ?id=
IdParams == {"1", "2", "7"}

\* query-string values of ?type= (null when the parameter is absent)
TypeParams == {NULL, "vod", "series", "live"}

\* well-formed values of ?limit= and ?page= (absent, or a positive number)
GoodLimits == {NoText} \cup {<<Digits[n + 1]>> : n \in 1..MaxLimit}
GoodPages == {NoText} \cup {<<Digits[n + 1]>> : n \in 1..MaxPage}

\* other values: zero, a negative number, not a number, a number followed by a letter
OddNumbers == {<<"0">>, <<"-", "1">>, <<"x">>, <<"2", "x">>}

ListRequest(type, categoryId, limit, page) ==
    [type |-> type, categoryId |-> categoryId, limit |-> limit, page |-> page]

\* requests to api.items without ?id=
ListRequests ==
    {ListRequest("vod", c, l, p) : c \in {NULL, "10"}, l \in GoodLimits, p \in GoodPages}
        \cup {ListRequest("series", NULL, l, p) : l \in {NoText, <<"1">>}, p \in {NoText, <<"2">>}}
        \cup {ListRequest(t, NULL, <<"1">>, <<"1">>) : t \in {NULL, "live"}}
        \cup {ListRequest("vod", NULL, l, <<"1">>) : l \in OddNumbers}
        \cup {ListRequest("vod", NULL, l, p) : l \in {NoText, <<"1">>}, p \in OddNumbers}

SearchRequest(q, type, limit, page) == [q |-> q, type |-> type, limit |-> limit, page |-> page]

\* requests to api.search
SearchRequests ==
    {SearchRequest(q, t, l, p) :
        q \in {<<"a", "l", "p">>, <<" ", "A", "L", " ">>, <<"_">>},
        t \in {NULL, "vod"}, l \in GoodLimits, p \in GoodPages}
        \cup {SearchRequest(<<"z", "z">>, t, NoText, NoText) : t \in {NULL, "vod"}}
        \cup {SearchRequest(q, t, l, NoText) :
                q \in {NoText, <<>>, <<" ", " ">>}, t \in {NULL, "vod"}, l \in {NoText, <<"1">>}}
        \cup {SearchRequest(<<"a", "l", "p">>, "live", <<"1">>, <<"1">>)}
        \cup {SearchRequest(<<"a", "l", "p">>, NULL, l, <<"1">>) : l \in OddNumbers}
        \cup {SearchRequest(<<"a", "l", "p">>, NULL, <<"1">>, p) : p \in OddNumbers}

listByType(type, categoryId, limitParam, pageParam) ==
    /\ LET out == ApiItems(ItemsTable, type, NULL, categoryId, limitParam, pageParam) IN
          /\ getDatabase(out.calls # <<>>)
          /\ lastOp' = [op |-> "listByType",
                        arg |-> [type |-> type, categoryId |-> categoryId,
                                 limit |-> limitParam, page |-> pageParam],
                        val |-> <<>>, ret |-> out, pre |-> {}]
    /\ UNCHANGED <<cache, now, stored, itemVars, ttlVars, txn, proxy, hook>>

getById(id, type) ==
    /\ LET out == ApiItems(ItemsTable, type, id, NULL, NoText, NoText) IN
          /\ getDatabase(out.calls # <<>>)
          /\ lastOp' = [op |-> "getById", arg |-> [id |-> id, type |-> type], val |-> <<>>,
                        ret |-> out, pre |-> {}]
    /\ UNCHANGED <<cache, now, stored, itemVars, ttlVars, txn, proxy, hook>>

searchByName(q, type, pageParam, limitParam) ==
    /\ LET out == ApiSearch(ItemsTable, q, type, pageParam, limitParam) IN
          /\ getDatabase(out.calls # <<>>)
          /\ lastOp' = [op |-> "searchByName",
                        arg |-> [q |-> q, type |-> type, limit |-> limitParam,
                                 page |-> pageParam],
                        val |-> <<>>, ret |-> out, pre |-> {}]
    /\ UNCHANGED <<cache, now, stored, itemVars, ttlVars, txn, proxy, hook>>

NextQuery ==
    \/ \E item \in QueryPool : storeItem(item)
    \/ \E type \in ItemTypes : clearItems(type)
    \/ \E r \in ListRequests : listByType(r.type, r.categoryId, r.limit, r.page)
    \/ \E id \in IdParams, type \in TypeParams : getById(id, type)
    \/ \E r \in SearchRequests : searchByName(r.q, r.type, r.page, r.limit)

SpecQuery == Init /\ [][NextQuery]_vars

----------------------------------------------------------------------------
(* Specification of the full resync over a table filled item by item *)

NextSync ==
    \/ \E item \in QueryPool : storeItem(item)
    \/ \E outcome \in FetchOutcomes : syncVod(outcome)
    \/ \E outcome \in FetchOutcomes : syncSeries(outcome)
    \/ TickItems

SpecSync == Init /\ [][NextSync]_vars

----------------------------------------------------------------------------
(* Specification of the full resync when the batch write may fail and the   *)
(* upstream listing may name an id twice.  clearItems(type) and             *)
(* storeItems(items) are two calls: the DELETE commits on its own, the      *)
(* batch runs in its transaction afterwards, and storeItems catches what    *)
(* the transaction throws.                                                  *)

\* elements of the upstream listings: RawPool and a second title under stream id 1
ResyncPool ==
    RawPool \cup
    { [stream_id |-> Num(1), series_id |-> Missing, name |-> "Beta",
       stream_icon |-> UNDEFINED, cover |-> UNDEFINED, category_id |-> "20"] }

ResyncOutcomes ==
    {[ok |-> TRUE, data |-> l] : l \in SeqsUpTo(ResyncPool, MaxListing)}
        \cup {[ok |-> FALSE, data |-> <<>>]}

\* one type's half of the resync, fails telling whether the transaction of storeItems
\* throws: it is rolled back, the error is logged, and the handler goes on to
\* results.stored = items.length
SyncTypeOutcome(tbl, outcome, type, batch, t, fails) ==
    IF fails /\ SyncWrites(outcome, batch)
    THEN [rows |-> clearItemsRows(tbl, type),
          result |-> SyncType(tbl, outcome, type, batch, t).result]
    ELSE SyncType(tbl, outcome, type, batch, t)

syncVodFaulty(outcome, fails) ==
    /\ sync.pc = "idle"
    /\ getDatabase(SyncWrites(outcome, SyncVodBatch(outcome.data)))
    /\ LET r == SyncTypeOutcome(ItemsTable, outcome, "vod", SyncVodBatch(outcome.data),
                                now, fails)
       IN /\ items' = r.rows
          /\ sync' = [pc |-> "series", results |-> [sync.results EXCEPT !.vod = r.result]]
    /\ lastOp' = [op |-> "syncVodFaulty", arg |-> <<fails>>, val |-> outcome, ret |-> JNull,
                  pre |-> ItemsTable]
    /\ lastKeys' = {}
    /\ prevKeys' = {}
    /\ UNCHANGED <<cache, now, stored, ttlVars, txn, proxy, hook>>

syncSeriesFaulty(outcome, fails) ==
    /\ sync.pc = "series"
    /\ getDatabase(SyncWrites(outcome, SyncSeriesBatch(outcome.data)))
    /\ LET r == SyncTypeOutcome(ItemsTable, outcome, "series",
                                SyncSeriesBatch(outcome.data), now, fails)
           results == [sync.results EXCEPT !.series = r.result]
       IN /\ items' = r.rows
          /\ lastOp' = [op |-> "syncSeriesFaulty", arg |-> <<fails>>, val |-> outcome,
                        ret |-> [success |-> results.vod.stored > 0 \/ results.series.stored > 0,
                                 results |-> results], pre |-> ItemsTable]
    /\ sync' = SyncIdle
    /\ lastKeys' = {}
    /\ prevKeys' = {}
    /\ UNCHANGED <<cache, now, stored, ttlVars, txn, proxy, hook>>

NextResync ==
    \/ \E outcome \in ResyncOutcomes, fails \in BOOLEAN : syncVodFaulty(outcome, fails)
    \/ \E outcome \in ResyncOutcomes, fails \in BOOLEAN : syncSeriesFaulty(outcome, fails)
    \/ TickItems

SpecResync == Init /\ [][NextResync]_vars

----------------------------------------------------------------------------
(* storeItems statement by statement.  database.transaction(fn) runs BEGIN, *)
(* the INSERT OR REPLACE statements of the batch, then COMMIT, or ROLLBACK  *)
(* when a statement throws.  The calls are synchronous, so no operation of  *)
(* this process runs in between; a reader on another connection to the     *)
(* same file (WAL mode) can, and reads the committed rows.                  *)

\* mutant: the statements run outside a transaction, each one committing at once
AfterStatement_autocommit(committed, working) == working

\* the committed rows after a statement that ran between BEGIN and COMMIT
AfterStatement(committed, working) == committed

\* what the read functions return on the rows a reader finds
ReadAll(tbl, type) ==
    [getItems |-> getItemsRows(tbl, type, UNDEFINED, Missing, Missing),
     getItemCount |-> getItemCountRows(tbl, type),
     getItem |-> getItemRow(tbl, "1", type),
     searchItems |-> searchItemsRows(tbl, <<"a">>, type, Missing, Missing)]

\* storeItems(batch) up to BEGIN: an empty batch returns before the store is reached
beginStoreItems(batch) ==
    /\ txn.pc = "idle"
    /\ Len(batch) > 0
    /\ getDatabase(TRUE)
    /\ txn' = [pc |-> "open", rows |-> ItemsTable,
               pending |-> [i \in 1..Len(batch) |-> ItemRow(batch[i], now)],
               batch |-> batch, before |-> ItemsTable]
    /\ lastOp' = [op |-> "beginStoreItems", arg |-> <<>>, val |-> batch, ret |-> JNull,
                  pre |-> {}]
    /\ lastKeys' = {}
    /\ prevKeys' = {}
    /\ UNCHANGED <<cache, items, now, stored, sync, ttlVars, proxy, hook>>

\* the next stmt.run(...) of the loop; it throws when the row violates a constraint of
\* the table or when the storage layer fails (fails)
runStatement(fails) ==
    /\ txn.pc = "open"
    /\ txn.pending # <<>>
    /\ LET row == Head(txn.pending) IN
       IF fails \/ ~ConstraintsOk(row)
       THEN /\ txn' = [txn EXCEPT !.pc = "failed"]
            /\ items' = items
       ELSE /\ txn' = [txn EXCEPT !.rows = InsertOrReplaceItem(@, row), !.pending = Tail(@)]
            /\ items' = AfterStatement(items, InsertOrReplaceItem(txn.rows, row))
    /\ lastOp' = [op |-> "runStatement", arg |-> <<>>, val |-> txn.batch, ret |-> JNull,
                  pre |-> {}]
    /\ UNCHANGED <<cache, now, stored, lastKeys, prevKeys, sync, ttlVars, proxy, connVars, hook>>

\* COMMIT after the last statement
commitStoreItems ==
    /\ txn.pc = "open"
    /\ txn.pending = <<>>
    /\ items' = txn.rows
    /\ txn' = TxIdle
    /\ lastOp' = [op |-> "commitStoreItems", arg |-> <<>>, val |-> txn.batch, ret |-> JNull,
                  pre |-> txn.before]
    /\ UNCHANGED <<cache, now, stored, lastKeys, prevKeys, sync, ttlVars, proxy, connVars, hook>>

\* ROLLBACK after a statement threw; the error is caught and logged by storeItems
rollbackStoreItems ==
    /\ txn.pc = "failed"
    /\ items' = AfterStatement(items, txn.rows)
    /\ txn' = TxIdle
    /\ lastOp' = [op |-> "rollbackStoreItems", arg |-> <<>>, val |-> txn.batch, ret |-> JNull,
                  pre |-> txn.before]
    /\ UNCHANGED <<cache, now, stored, lastKeys, prevKeys, sync, ttlVars, proxy, connVars, hook>>

\* getItems, getItemCount, getItem and searchItems called on another connection
concurrentRead(type) ==
    /\ lastOp' = [op |-> "concurrentRead", arg |-> type, val |-> <<>>,
                  ret |-> ReadAll(items, type), pre |-> {}]
    /\ UNCHANGED <<cache, now, stored, itemVars, ttlVars, txn, proxy, connVars, hook>>

NextTx ==
    \/ \E batch \in Batches : beginStoreItems(batch)
    \/ \E fails \in BOOLEAN : runStatement(fails)
    \/ commitStoreItems
    \/ rollbackStoreItems
    \/ \E type \in ItemTypes : concurrentRead(type)
    \/ \E type \in ItemTypes : txn.pc = "idle" /\ clearItems(type)

SpecTx == Init /\ [][NextTx]_vars

----------------------------------------------------------------------------
(* The store functions when the storage layer fails.  Every function body   *)
(* is one try block whose catch logs the error and returns the function's   *)
(* default.  fail names the call that throws: "open" for getDatabase(),     *)
(* "select" for the first statement, "write" for the DELETE, UPDATE or      *)
(* INSERT that follows, "none" when nothing fails.  An outcome is the table *)
(* afterwards, the value returned, and whether an error left the function.  *)

CacheFailures == {"none", "open", "select", "write"}
WriteFailures == {"none", "open", "write"}

\* mutant: the hit is counted before the row is selected
getCacheOutcome_countFirst(c, t, key, fail) ==
    IF fail = "open" THEN [rows |-> c, ret |-> JNull, threw |-> FALSE]
    ELSE IF fail = "select" THEN [rows |-> UpdateHit(c, t, key), ret |-> JNull, threw |-> FALSE]
    ELSE IF SelectCache(c, key) = {} \/ fail = "write"
    THEN [rows |-> c, ret |-> JNull, threw |-> FALSE]
    ELSE [rows |-> getCacheRows(c, t, key), ret |-> getCacheRet(c, t, key), threw |-> FALSE]

\* getCache(key): a throw of getDatabase() or of the SELECT, or of the DELETE or UPDATE
\* that follows a row found, ends in `return null`
getCacheOutcome(c, t, key, fail) ==
    IF fail \in {"open", "select"} THEN [rows |-> c, ret |-> JNull, threw |-> FALSE]
    ELSE IF SelectCache(c, key) = {} \/ fail = "write"
    THEN [rows |-> c, ret |-> JNull, threw |-> FALSE]
    ELSE [rows |-> getCacheRows(c, t, key), ret |-> getCacheRet(c, t, key), threw |-> FALSE]

\* setCache(key, value)
setCacheOutcome(c, t, key, value, fail) ==
    [rows |-> IF fail = "none" THEN setCacheRows(c, t, key, value) ELSE c,
     ret |-> JNull, threw |-> FALSE]

\* clearCache()
clearCacheOutcome(c, fail) ==
    [rows |-> IF fail = "none" THEN DeleteAllCache(c) ELSE c, ret |-> JNull, threw |-> FALSE]

\* getItems, searchItems, getItem, getItemCount and getSearchCount, each one's query
\* failing when fails
ReadOutcomes(tbl, type, fails) ==
    [getItems |-> IF fails THEN <<>> ELSE getItemsRows(tbl, type, UNDEFINED, Missing, Missing),
     searchItems |-> IF fails THEN <<>>
                     ELSE searchItemsRows(tbl, <<"a">>, type, Missing, Missing),
     getItem |-> IF fails THEN NoItem ELSE getItemRow(tbl, "1", type),
     getItemCount |-> IF fails THEN 0 ELSE getItemCountRows(tbl, type),
     getSearchCount |-> IF fails THEN 0 ELSE getSearchCountRows(tbl, <<"a">>, type),
     threw |-> FALSE]

\* The table as the loaders of the read endpoints get to see it while the storage
\* layer is down: getItems and searchItems answer [], the counts 0 and getItem null,
\* which is what each answers on an empty table.
TableSeen(tbl, fails) == IF fails THEN {} ELSE tbl

\* the connection of an operation whose getDatabase() may throw (new Database(...)
\* throws before db is assigned)
getDatabaseOrFail(fail) ==
    IF fail = "open" THEN UNCHANGED <<db, conns>> ELSE getDatabase(TRUE)

getCacheFaulty(key, fail) ==
    /\ \A r \in SelectCache(CacheTable, key) : ~(now > r.expires_at) => r.hit_count < MaxHits
    /\ getDatabaseOrFail(fail)
    /\ LET out == getCacheOutcome(CacheTable, now, key, fail) IN
          /\ cache' = out.rows
          /\ lastOp' = [op |-> "getCacheFaulty", arg |-> key, val |-> fail,
                        ret |-> [ret |-> out.ret, threw |-> out.threw], pre |-> CacheTable]
    /\ UNCHANGED <<now, stored, itemVars, ttlVars, txn, proxy, hook>>

setCacheFaulty(key, value, fail) ==
    /\ getDatabaseOrFail(fail)
    /\ LET out == setCacheOutcome(CacheTable, now, key, value, fail) IN
          /\ cache' = out.rows
          /\ lastOp' = [op |-> "setCacheFaulty", arg |-> key, val |-> fail,
                        ret |-> [ret |-> out.ret, threw |-> out.threw], pre |-> CacheTable]
    /\ stored' = IF fail = "none" THEN [stored EXCEPT ![key] = value] ELSE stored
    /\ UNCHANGED <<now, itemVars, ttlVars, txn, proxy, hook>>

clearCacheFaulty(fail) ==
    /\ getDatabaseOrFail(fail)
    /\ LET out == clearCacheOutcome(CacheTable, fail) IN
          /\ cache' = out.rows
          /\ lastOp' = [op |-> "clearCacheFaulty", arg |-> <<>>, val |-> fail,
                        ret |-> [ret |-> out.ret, threw |-> out.threw], pre |-> CacheTable]
    /\ UNCHANGED <<now, stored, itemVars, ttlVars, txn, proxy, hook>>

readItemsFaulty(type, fails) ==
    /\ getDatabaseOrFail(IF fails THEN "open" ELSE "none")
    /\ lastOp' = [op |-> "readItemsFaulty", arg |-> type, val |-> fails,
                  ret |-> ReadOutcomes(ItemsTable, type, fails), pre |-> ItemsTable]
    /\ UNCHANGED <<cache, now, stored, itemVars, ttlVars, txn, proxy, hook>>

\* GET /api/items and GET /api/search while the storage layer may be down
endpointFaulty(request, fails) ==
    /\ LET out == IF request.kind = "list"
                  THEN ApiItems(TableSeen(ItemsTable, fails), request.type, request.id, NULL,
                                request.limit, request.page)
                  ELSE ApiSearch(TableSeen(ItemsTable, fails), request.q, request.type,
                                 request.page, request.limit)
       IN /\ getDatabaseOrFail(IF fails \/ out.calls = <<>> THEN "open" ELSE "none")
          /\ lastOp' = [op |-> "endpointFaulty", arg |-> request, val |-> fails, ret |-> out,
                        pre |-> ItemsTable]
    /\ UNCHANGED <<cache, now, stored, itemVars, ttlVars, txn, proxy, hook>>

\* cache key used while failures are exercised
FaultKeys == {K_INFO}

\* items stored while failures are exercised
FaultPool == {item \in QueryPool : item.name = "Alpha"}

\* requests sent to the read endpoints while failures are exercised
FaultRequests ==
    { [kind |-> "list", type |-> "vod", id |-> NULL, q |-> NoText, limit |-> NoText,
       page |-> NoText],
      [kind |-> "list", type |-> "vod", id |-> NULL, q |-> NoText, limit |-> <<"1">>,
       page |-> <<"1">>],
      [kind |-> "list", type |-> "vod", id |-> "1", q |-> NoText, limit |-> NoText,
       page |-> NoText],
      [kind |-> "search", type |-> NULL, id |-> NULL, q |-> <<"a">>, limit |-> NoText,
       page |-> NoText] }

NextFault ==
    \/ \E key \in FaultKeys, fail \in CacheFailures : getCacheFaulty(key, fail)
    \/ \E key \in FaultKeys, value \in JsonValues, fail \in WriteFailures :
          setCacheFaulty(key, value, fail)
    \/ \E fail \in WriteFailures : clearCacheFaulty(fail)
    \/ \E type \in ItemTypes, fails \in BOOLEAN : readItemsFaulty(type, fails)
    \/ \E request \in FaultRequests, fails \in BOOLEAN : endpointFaulty(request, fails)
    \/ \E item \in FaultPool : storeItem(item)
    \/ TickCoarse

SpecFault == Init /\ [][NextFault]_vars

----------------------------------------------------------------------------
(* Proxy route api.xtream-proxy: cache lookup, upstream fetch, write-through *)
(* to the response cache and opportunistic extraction.  The loader awaits   *)
(* the fetch, so a request is two steps: proxyStart up to the fetch,        *)
(* proxyFinish from the fetched response to the answer.                     *)

\* Bodies of upstream JSON responses.  json is the body as cached and returned
\* (objects are outside the JSON fragment modelled, so the body of a listing is
\* abbreviated to an array of scalars); isArray and elems are the body as
\* extractAndStoreItems inspects it.
Payloads ==
    {[json |-> JNull, isArray |-> FALSE, elems |-> <<>>]}
        \cup {[json |-> JArr(<<JNum(<<"7">>), JStr(<<"a">>)>>), isArray |-> TRUE, elems |-> l] :
                l \in Listings}

\* outcomes of `await fetch(decodedUrl)` and of reading the body: a thrown error, or a
\* response with its status, whether its content type is JSON, and its body (the
\* error response that is JSON carries a listing extraction would store)
Upstreams ==
    {[threw |-> TRUE, status |-> 0, isJson |-> FALSE, body |-> CHOOSE p \in Payloads : ~p.isArray]}
        \cup {[threw |-> FALSE, status |-> 200, isJson |-> TRUE, body |-> p] : p \in Payloads}
        \cup {[threw |-> FALSE, status |-> st, isJson |-> js,
                body |-> IF st = 404 /\ js
                         THEN CHOOSE p \in Payloads : ExtractWrites(p, K_VOD)
                         ELSE CHOOSE p \in Payloads : ~p.isArray] :
                st \in {200, 404}, js \in BOOLEAN}

\* decoded target urls of proxied requests; generateCacheKey keeps a normalized url
ProxyUrls == CacheKeys

\* mutant: the status of the response is not looked at
ResponseOk_anyStatus(status) == TRUE

\* response.ok
ResponseOk(status) == status >= 200 /\ status <= 299

\* mutant: a failed batch write surfaces as an exception of extractAndStoreItems
ExtractOutcome_uncaught(tbl, responseData, url, t, fails) ==
    [rows |-> IF fails THEN tbl ELSE extractAndStoreItemsRows(tbl, responseData, url, t),
     threw |-> fails /\ extractAndStoreItemsRows(tbl, responseData, url, t + 1) # tbl]

\* extractAndStoreItems(responseData, url) when the storage layer may fail the batch
\* write: storeItems rolls the transaction back and logs the error, and the function's
\* own catch swallows anything else, so nothing is thrown to the loader
ExtractOutcome(tbl, responseData, url, t, fails) ==
    [rows |-> IF fails THEN tbl ELSE extractAndStoreItemsRows(tbl, responseData, url, t),
     threw |-> FALSE]

\* the answer of the loader's catch block
ProxyFailed == [status |-> 502, body |-> JNull, xcache |-> "none"]

\* the loader from the fetched response on: tables and answer
ProxyFinish(c, tbl, t, url, upstream, fails) ==
    IF upstream.threw THEN [cache |-> c, items |-> tbl, response |-> ProxyFailed]
    ELSE IF ResponseOk(upstream.status) /\ upstream.isJson
    THEN LET c2 == setCacheRows(c, t, url, upstream.body.json)
             ex == ExtractOutcome(tbl, upstream.body, url, t, fails)
         IN [cache |-> c2, items |-> ex.rows,
             response |-> IF ex.threw THEN ProxyFailed
                          ELSE [status |-> upstream.status, body |-> upstream.body.json,
                                xcache |-> "MISS"]]
    ELSE [cache |-> c, items |-> tbl,
          response |-> [status |-> upstream.status, body |-> upstream.body.json,
                        xcache |-> "MISS"]]

\* mutant: the sweep branch is never taken
SweepOnMiss_never(c, t, sweep) == c

\* if (Math.random() < 0.1) clearExpiredCache(), sweep telling how the draw came out
SweepOnMiss(c, t, sweep) == IF sweep THEN DeleteExpired(c, t) ELSE c

\* a request arrives: unless refresh=true the cache is read and a non-null value is
\* answered at once; otherwise the expired entries are swept with probability 0.1 and
\* the upstream fetch is started
proxyStart(url, forceRefresh, sweep) ==
    /\ proxy.pc = "idle"
    /\ \A r \in SelectCache(CacheTable, url) : ~(now > r.expires_at) => r.hit_count < MaxHits
    /\ LET cachedData == IF forceRefresh THEN JNull ELSE getCacheRet(CacheTable, now, url)
           c1 == IF forceRefresh THEN CacheTable ELSE getCacheRows(CacheTable, now, url)
       IN IF cachedData # JNull
          THEN /\ getDatabase(TRUE)
               /\ cache' = c1
               /\ proxy' = proxy
               /\ lastOp' = [op |-> "proxyStart", arg |-> url,
                             val |-> [forceRefresh |-> forceRefresh, sweep |-> FALSE],
                             ret |-> [status |-> 200, body |-> cachedData, xcache |-> "HIT"],
                             pre |-> {}]
          ELSE /\ getDatabase(~forceRefresh \/ sweep)
               /\ cache' = SweepOnMiss(c1, now, sweep)
               /\ proxy' = [pc |-> "fetching", key |-> url]
               /\ lastOp' = [op |-> "proxyStart", arg |-> url,
                             val |-> [forceRefresh |-> forceRefresh, sweep |-> sweep],
                             ret |-> JNull, pre |-> IF sweep THEN c1 ELSE {}]
    /\ UNCHANGED <<now, stored, itemVars, ttlVars, txn, hook>>

\* the fetch of the pending request completes and the request is answered; fails tells
\* whether the storage layer fails the items batch write
proxyFinish(upstream, fails) ==
    /\ proxy.pc = "fetching"
    /\ getDatabase(~upstream.threw /\ ResponseOk(upstream.status) /\ upstream.isJson)
    /\ LET out == ProxyFinish(CacheTable, ItemsTable, now, proxy.key, upstream, fails) IN
          /\ cache' = out.cache
          /\ items' = out.items
          /\ lastOp' = [op |-> "proxyFinish", arg |-> proxy.key,
                        val |-> [upstream |-> upstream, fails |-> fails],
                        ret |-> out.response, pre |-> {}]
          /\ stored' = IF out.cache # cache
                       THEN [stored EXCEPT ![proxy.key] = upstream.body.json] ELSE stored
    /\ proxy' = ProxyIdle
    /\ lastKeys' = {}
    /\ prevKeys' = {}
    /\ UNCHANGED <<now, sync, ttlVars, txn, hook>>

NextProxy ==
    \/ \E url \in ProxyUrls, forceRefresh \in BOOLEAN, sweep \in BOOLEAN :
          proxyStart(url, forceRefresh, sweep)
    \/ \E upstream \in Upstreams, fails \in BOOLEAN : proxyFinish(upstream, fails)
    \/ TickCoarse

SpecProxy == Init /\ [][NextProxy]_vars

----------------------------------------------------------------------------
(* Specification of the proxy route under the scheduling that expired-entry *)
(* cleanup relies on: requests keep arriving, and of the requests that take *)
(* the miss path (here those sent with refresh=true, which read no key) the *)
(* draw Math.random() < 0.1 succeeds again and again; a fetch that was      *)
(* started completes or fails.                                              *)

\* upstream outcomes while the sweep is exercised: an OK JSON listing, a thrown fetch
SweepUpstreams ==
    {u \in Upstreams : u.threw \/ (u.status = 200 /\ u.isJson /\ u.body.elems = <<>>)}

\* a request with refresh=true whose draw takes the sweep branch
sweepingMiss == \E url \in ProxyUrls : proxyStart(url, TRUE, TRUE)

\* the pending fetch settles
fetchSettles == \E upstream \in SweepUpstreams : proxyFinish(upstream, FALSE)

NextSweep ==
    \/ \E url \in ProxyUrls, forceRefresh \in BOOLEAN, sweep \in BOOLEAN :
          proxyStart(url, forceRefresh, sweep)
    \/ fetchSettles
    \/ TickCoarse

SpecSweep == Init /\ [][NextSweep]_vars /\ SF_vars(sweepingMiss) /\ WF_vars(fetchSettles)

----------------------------------------------------------------------------
(* Specification of the store handle: operations of both tables, closeCache *)
(* between them.                                                            *)

MaxOpens == 2       \* connections opened over a run

\* closeCache(): if (db) { db.close(); db = null; }
closeCache ==
    /\ conns.created < MaxOpens
    /\ IF db # NoHandle
       THEN /\ conns' = [conns EXCEPT !.open = CloseConnection(@, db)]
            /\ db' = NoHandle
       ELSE UNCHANGED <<db, conns>>
    /\ lastOp' = [op |-> "closeCache", arg |-> <<>>, val |-> JNull, ret |-> JNull, pre |-> {}]
    /\ UNCHANGED <<cache, now, stored, itemVars, ttlVars, txn, proxy, hook>>

\* the value cached while the handle is exercised
ConnValues == {JTrue}

NextConn ==
    \/ \E key \in CacheKeys : getCache(key)
    \/ \E key \in CacheKeys, value \in ConnValues : setCache(key, value)
    \/ \E item \in FaultPool : storeItem(item)
    \/ \E batch \in {<<>>} : storeItems(batch)
    \/ closeCache
    \/ TickCoarse

SpecConn == Init /\ [][NextConn]_vars

----------------------------------------------------------------------------
(* The useSearch hook.  setQuery re-renders and the effect replaces the     *)
(* debounce timer; the timer calls performSearch(query), which awaits       *)
(* searchService.searchItems and writes the result into the state when the  *)
(* promise settles.  Searches that were started are neither cancelled nor   *)
(* numbered, and their responses arrive in any order.                       *)

\* texts typed into the search box
HookQueries == {<<>>, <<" ">>, <<"a", "l">>, <<"z">>}

\* the default page and page size searchItems puts into the url
HookPage == <<"1">>
HookLimit == <<"5", "0">>

\* setQuery(q) with a text other than the current one (React skips an equal state)
setQuery(q) ==
    /\ q # hook.query
    /\ hook' = [hook EXCEPT !.query = q, !.timer = TRUE]
    /\ lastOp' = [op |-> "setQuery", arg |-> q, val |-> JNull, ret |-> JNull, pre |-> {}]
    /\ UNCHANGED <<cache, now, stored, itemVars, ttlVars, txn, proxy, connVars>>

\* the debounce timer fires: performSearch(query) up to its await
performSearch ==
    /\ hook.timer
    /\ hook' = IF IsBlankQuery(hook.query)
               THEN [hook EXCEPT !.items = <<>>, !.pagination = NoPagination,
                                 !.totalCount = 0, !.error = "<null>", !.timer = FALSE]
               ELSE [hook EXCEPT !.isLoading = TRUE, !.error = "<null>", !.timer = FALSE,
                                 !.inflight = @ \cup {hook.query}]
    /\ lastOp' = [op |-> "performSearch", arg |-> hook.query, val |-> JNull, ret |-> JNull,
                  pre |-> {}]
    /\ UNCHANGED <<cache, now, stored, itemVars, ttlVars, txn, proxy, connVars>>

\* the search for q that was awaited settles: api.search has answered (ok) and the
\* result is written into the state, or the request failed and the catch block runs
searchSettles(q, ok) ==
    /\ q \in hook.inflight
    /\ LET out == ApiSearch(ItemsTable, q, NULL, HookPage, HookLimit) IN
       IF ok
       THEN /\ getDatabase(out.calls # <<>>)
            /\ hook' = [hook EXCEPT !.items = out.response.items,
                                    !.pagination = out.response.pagination,
                                    !.totalCount = out.response.totalCount,
                                    !.searchType = out.response.type,
                                    !.isLoading = FALSE, !.inflight = @ \ {q}]
       ELSE /\ UNCHANGED <<db, conns>>
            /\ hook' = [hook EXCEPT !.error = "Failed to perform search", !.items = <<>>,
                                    !.pagination = NoPagination, !.totalCount = 0,
                                    !.isLoading = FALSE, !.inflight = @ \ {q}]
    /\ lastOp' = [op |-> "searchSettles", arg |-> q, val |-> [ok |-> ok], ret |-> JNull, pre |-> {}]
    /\ UNCHANGED <<cache, now, stored, itemVars, ttlVars, txn, proxy>>

\* clearSearch(); the effect sets a new timer when the query changed
clearSearch ==
    /\ hook' = [hook EXCEPT !.query = <<>>, !.items = <<>>, !.pagination = NoPagination,
                            !.totalCount = 0, !.error = "<null>",
                            !.timer = (hook.timer \/ hook.query # <<>>)]
    /\ lastOp' = [op |-> "clearSearch", arg |-> <<>>, val |-> JNull, ret |-> JNull, pre |-> {}]
    /\ UNCHANGED <<cache, now, stored, itemVars, ttlVars, txn, proxy, connVars>>

NextHook ==
    \/ \E item \in FaultPool : storeItem(item)
    \/ \E q \in HookQueries : setQuery(q)
    \/ performSearch
    \/ \E q \in HookQueries, ok \in BOOLEAN : searchSettles(q, ok)
    \/ clearSearch

SpecHook == Init /\ [][NextHook]_vars

----------------------------------------------------------------------------
(* Properties of the response cache *)

\* m occurs in s, found by scanning s from the left
RECURSIVE Occurs(_, _)
Occurs(m, s) ==
    IF Len(s) < Len(m) THEN FALSE
    ELSE StartsWith(s, m) \/ Occurs(m, Tail(s))

RowsOf(c, key) == {r \in c : r.key = key}
Total(c, t) == CacheStats(c, t).totalEntries

\* C1: a getCache(key) issued when now > expiresAt of the entry returns null and
\* deletes that entry, so that totalEntries drops by exactly 1; a getCache of an
\* absent key returns null, and an absent key stays absent until a setCache.
C1_ExpiredGetPurges ==
    [][ /\ \A key \in CacheKeys :
            (lastOp'.op = "getCache" /\ lastOp'.arg = key) =>
                /\ (\E r \in RowsOf(cache, key) : now > r.expires_at) =>
                       /\ lastOp'.ret = JNull
                       /\ RowsOf(cache', key) = {}
                       /\ Total(cache', now') = Total(cache, now) - 1
                /\ RowsOf(cache, key) = {} =>
                       /\ lastOp'.ret = JNull
                       /\ cache' = cache
        /\ \A key \in CacheKeys :
            (RowsOf(cache, key) = {} /\ ~(lastOp'.op = "setCache" /\ lastOp'.arg = key)) =>
                RowsOf(cache', key) = {}
      ]_vars

\* C1 witness: a getCache has just purged an expired entry while another entry remains
C1_Witness ==
    /\ lastOp.op = "getCache"
    /\ \E r \in RowsOf(lastOp.pre, lastOp.arg) : now > r.expires_at
    /\ RowsOf(cache, lastOp.arg) = {}
    /\ cache # {}

\* C2: a getCache(key) on a present, unexpired entry returns the value last passed to
\* setCache(key, .), adds exactly 1 to the entry's hitCount, sets lastAccessedAt to now
\* and changes nothing else in the table.
C2_HitEffect ==
    [][ \A key \in CacheKeys :
            (lastOp'.op = "getCache" /\ lastOp'.arg = key) =>
                \A r \in RowsOf(cache, key) :
                    ~(now > r.expires_at) =>
                        /\ lastOp'.ret = stored[key]
                        /\ cache' = (cache \ {r}) \cup
                              {[key |-> r.key, value |-> r.value, expires_at |-> r.expires_at,
                                created_at |-> r.created_at, hit_count |-> r.hit_count + 1,
                                last_accessed |-> now]}
      ]_vars

\* C2 witness: a hit returned a non-null payload, later than the entry's creation, while
\* the table holds a second entry
C2_Witness ==
    /\ lastOp.op = "getCache"
    /\ lastOp.ret # JNull
    /\ \E r \in RowsOf(cache, lastOp.arg) :
          r.hit_count > 0 /\ r.last_accessed = now /\ r.created_at < now
    /\ Cardinality(cache) = 2

\* C3: setCache(key, value) leaves exactly one entry for key, holding the serialized
\* value, createdAt = now, expiresAt = now + TTL(key) and hitCount = 0, whether or not
\* the key was present, and changes no other entry.
C3_SetEffect ==
    [][ \A key \in CacheKeys :
            (lastOp'.op = "setCache" /\ lastOp'.arg = key) =>
                /\ Cardinality(RowsOf(cache', key)) = 1
                /\ \A r \in RowsOf(cache', key) :
                      /\ JSON_parse(r.value) = [ok |-> TRUE, val |-> lastOp'.val]
                      /\ r.created_at = now
                      /\ r.expires_at = now + getTTL(key)
                      /\ r.hit_count = 0
                /\ cache' \ RowsOf(cache', key) = cache \ RowsOf(cache, key)
      ]_vars

\* C3 witness: a setCache has just overwritten an entry that had been hit, with another
\* value, while the table holds a second entry
C3_Witness ==
    /\ lastOp.op = "setCache"
    /\ \E r \in RowsOf(lastOp.pre, lastOp.arg) :
          r.hit_count > 0 /\ r.value # JSON_stringify(lastOp.val)
    /\ Cardinality(cache) = 2

\* C4: getTTL(key) is 24 h when the key contains get_vod_categories or
\* get_series_categories whatever else it contains, else 6 h when it contains
\* get_series_info, else 12 h.
C4_TTLPolicy ==
    ttlOut # 0 =>
        ttlOut = IF Occurs(M_VOD_CATEGORIES, ttlKey) \/ Occurs(M_SERIES_CATEGORIES, ttlKey)
                 THEN 24 * 60 * 60 * 1000
                 ELSE IF Occurs(M_SERIES_INFO, ttlKey) THEN 6 * 60 * 60 * 1000
                 ELSE 12 * 60 * 60 * 1000

\* C4 witness: a key holding both a categories marker and the series-detail marker was
\* resolved to 24 h
C4_Witness ==
    /\ ttlOut = 24 * 60 * 60 * 1000
    /\ Occurs(M_SERIES_INFO, ttlKey)
    /\ Occurs(M_VOD_CATEGORIES, ttlKey)

\* C5: every stored cache entry has expiresAt > createdAt.
C5_ExpiresAfterCreated ==
    \A r \in cache : r.expires_at > r.created_at

\* C5 witness: an entry that was overwritten and then hit is in the table
C5_Witness ==
    /\ lastOp.op = "getCache"
    /\ \E r \in cache : r.hit_count > 0 /\ r.created_at > 0

Expired(c, t) == CacheStats(c, t).expiredEntries

\* C6: totalEntries >= expiredEntries in every state; right after clearCache()
\* totalEntries is 0, and it stays 0 until the next setCache.
C6_StatsConsistent ==
    /\ [](Total(cache, now) >= Expired(cache, now))
    /\ [](lastOp.op = "clearCache" => Total(cache, now) = 0)
    /\ [][(Total(cache, now) = 0 /\ lastOp'.op # "setCache") => Total(cache', now') = 0]_vars

\* C6 witness: clearCache has just emptied a table that held an expired and a live entry
C6_Witness ==
    /\ lastOp.op = "clearCache"
    /\ Expired(lastOp.pre, now) = 1
    /\ Total(lastOp.pre, now) = 2
    /\ Total(cache, now) = 0

\* C7: clearExpiredCache() at time now deletes exactly the entries with
\* expiresAt < now: no entry that getCache would still return at that instant is
\* deleted, and the remaining entries are unchanged.
C7_SweepExact ==
    [][ lastOp'.op = "clearExpiredCache" =>
            /\ cache' = {r \in cache : ~(r.expires_at < now)}
            /\ \A r \in cache : getCacheRet(cache, now, r.key) # JNull => r \in cache'
            /\ \A r \in cache : ~(now > r.expires_at) => r \in cache'
      ]_vars

\* C7 witness: a sweep has just removed an expired entry and kept an entry whose
\* expiresAt equals now
C7_Witness ==
    /\ lastOp.op = "clearExpiredCache"
    /\ \E r \in lastOp.pre : r.expires_at < now /\ r \notin cache
    /\ \E r \in cache : r.expires_at = now

\* C8: invalidateCachePattern(s) deletes exactly the entries whose key contains s as a
\* case-sensitive literal substring, and leaves every other entry unchanged.
C8_LiteralSubstring ==
    [][ lastOp'.op = "invalidateCachePattern" =>
            cache' = {r \in cache : ~Occurs(lastOp'.arg, r.key)}
      ]_vars

----------------------------------------------------------------------------
(* Properties of the items store *)

ItemRowsOf(tbl, k) == {r \in tbl : <<r.id, r.type>> = k}

\* the last item of a batch filed under pair k
LastFor(batch, k) ==
    batch[CHOOSE i \in 1..Len(batch) :
            /\ <<batch[i].id, batch[i].type>> = k
            /\ \A j \in (i + 1)..Len(batch) : <<batch[j].id, batch[j].type>> # k]

\* C9: when storeItems is called with a batch over the same (id, type) pairs as the
\* storeItems call before it, exactly one row per pair is left and it holds the name,
\* posterUrl and categoryId given by the second call.
C9_UpsertIdempotent ==
    [][ ( /\ lastOp'.op = "storeItems"
          /\ lastKeys # {}
          /\ KeysOf(lastOp'.val) = lastKeys
          /\ \A i \in 1..Len(lastOp'.val) : lastOp'.val[i].type \in ItemTypes )
        => \A k \in lastKeys :
              /\ Cardinality(ItemRowsOf(items', k)) = 1
              /\ \A r \in ItemRowsOf(items', k) :
                    /\ r.name = LastFor(lastOp'.val, k).name
                    /\ r.poster_url = LastFor(lastOp'.val, k).poster_url
                    /\ r.category_id = LastFor(lastOp'.val, k).category_id
      ]_vars

\* C9 witness: the second of two storeItems calls over the same pairs, made later than
\* the first and naming one pair twice with different values, has left a single row
\* holding the values named last
C9_Witness ==
    /\ lastOp.op = "storeItems"
    /\ prevKeys # {}
    /\ prevKeys = lastKeys
    /\ Len(lastOp.val) = 2
    /\ Cardinality(lastKeys) = 1
    /\ lastOp.val[1].name # lastOp.val[2].name
    /\ \E r \in items : r.name = lastOp.val[2].name /\ r.updated_at = now /\ now > 0

\* C10: no two rows of the items table share (id, type), and every row's type is vod or
\* series.
C10_ItemsKeyAndType ==
    /\ \A r1, r2 \in items : (r1.id = r2.id /\ r1.type = r2.type) => r1 = r2
    /\ \A r \in items : r.type \in {"vod", "series"}

\* C10 witness: after a full resync the table holds a vod row and a series row under
\* the same id
C10_Witness ==
    /\ lastOp.op = "syncSeries"
    /\ lastOp.ret.success
    /\ \E r1, r2 \in items : r1.id = r2.id /\ r1.type = "vod" /\ r2.type = "series"

----------------------------------------------------------------------------
(* Properties of the read endpoints *)

\* the stored rows of a type, restricted to a category unless cat is null
Matching(tbl, type, cat) ==
    {r \in tbl : r.type = type /\ (cat = NULL \/ r.category_id = cat)}

\* the columns of a stored row that a response carries
Shown(r) ==
    [id |-> r.id, stream_id |-> r.stream_id, type |-> r.type, name |-> r.name,
     poster_url |-> r.poster_url, category_id |-> r.category_id]

\* s is in non-decreasing name order
NameAscending(s) ==
    \A i \in 1..(Len(s) - 1) : ~TextLess(Chars(s[i + 1].name), Chars(s[i].name))

\* s lists every element of set S exactly once
ListsOnce(s, S) == Len(s) = Cardinality(S) /\ Range(s) = S

\* the items of pages first..last of listByType(type) with limit L, concatenated
RECURSIVE ListPages(_, _, _, _, _)
ListPages(tbl, type, L, first, last) ==
    IF first > last THEN <<>>
    ELSE ApiItems(tbl, type, NULL, NULL, <<Digits[L + 1]>>, <<Digits[first + 1]>>).response.items
            \o ListPages(tbl, type, L, first + 1, last)

\* C11: for a store holding N items of a type and any limit L >= 1, the pages
\* 1..ceil(N/L) of listByType, requested with no write in between and concatenated in
\* order, hold each of the N items exactly once, in name-ascending order.
C11_PaginationRoundTrip ==
    \A type \in ItemTypes, L \in 1..MaxLimit :
        LET N == Cardinality(Matching(items, type, NULL))
            all == ListPages(items, type, L, 1, (N + L - 1) \div L)
        IN /\ ListsOnce(all, {Shown(r) : r \in Matching(items, type, NULL)})
           /\ NameAscending(all)

\* C11 witness: the second and last page of a three-item listing has just been served
\* with limit 2
C11_Witness ==
    /\ lastOp.op = "listByType"
    /\ lastOp.ret.response.status = 200
    /\ lastOp.arg.categoryId = NULL
    /\ lastOp.ret.response.pagination.limit = 2
    /\ lastOp.ret.response.pagination.page = 2
    /\ lastOp.ret.response.count = 1
    /\ Cardinality(Matching(items, lastOp.arg.type, NULL)) = 3

\* C12: in a listByType(type, categoryId, page, limit) response, totalCount is the number
\* of rows matching both type and the optional categoryId, totalPages is
\* ceil(totalCount / limit), hasNextPage holds exactly when page < totalPages and
\* hasPreviousPage exactly when page > 1.
C12_TotalCountMatchesFilter ==
    (lastOp.op = "listByType" /\ lastOp.ret.response.status = 200) =>
        LET r == lastOp.ret.response
            n == Cardinality(Matching(items, lastOp.arg.type, lastOp.arg.categoryId))
        IN /\ r.totalCount = n
           /\ lastOp.arg.limit # NoText =>
                 /\ r.pagination.totalPages = (n + r.pagination.limit - 1) \div r.pagination.limit
                 /\ r.pagination.hasNextPage = (r.pagination.page < r.pagination.totalPages)
                 /\ r.pagination.hasPreviousPage = (r.pagination.page > 1)

\* C13: listByType(type, categoryId) returns exactly the stored rows whose type and
\* categoryId both match (all rows of the type when categoryId is omitted), sorted by
\* name ascending.
C13_ListFilter ==
    (lastOp.op = "listByType" /\ lastOp.ret.response.status = 200 /\ lastOp.arg.limit = NoText) =>
        /\ ListsOnce(lastOp.ret.response.items,
                     {Shown(r) : r \in Matching(items, lastOp.arg.type, lastOp.arg.categoryId)})
        /\ NameAscending(lastOp.ret.response.items)

\* C13 witness: of three vod items with categoryId 10, 10, 20, listByType(vod, 10) has
\* returned the two matching items
C13_Witness ==
    /\ lastOp.op = "listByType"
    /\ lastOp.arg.type = "vod"
    /\ lastOp.arg.categoryId = "10"
    /\ lastOp.arg.limit = NoText
    /\ lastOp.ret.response.status = 200
    /\ Len(lastOp.ret.response.items) = 2
    /\ Cardinality({r \in items : r.type = "vod" /\ r.category_id = "10"}) = 2
    /\ Cardinality({r \in items : r.type = "vod" /\ r.category_id = "20"}) = 1

\* q is absent, empty or made of blanks only
Blank(q) == q = NoText \/ \A i \in 1..Len(q) : q[i] = " "

\* page and limit are absent or positive numbers
WellPaged(arg) == arg.limit \in GoodLimits /\ arg.page \in GoodPages

\* C14: searchByName with an empty or whitespace-only query returns items = [] and
\* totalCount = 0 whatever the store contains, without raising an error.
C14_BlankSearchEmpty ==
    (lastOp.op = "searchByName" /\ Blank(lastOp.arg.q) /\ WellPaged(lastOp.arg)
        /\ lastOp.arg.type \in {NULL, "vod", "series"}) =>
        /\ lastOp.ret.response.status = 200
        /\ lastOp.ret.response.items = <<>>
        /\ lastOp.ret.response.totalCount = 0

\* C14 witness: a whitespace-only query has been answered over a store of four items
C14_Witness ==
    /\ lastOp.op = "searchByName"
    /\ lastOp.arg.q = <<" ", " ">>
    /\ lastOp.ret.response.status = 200
    /\ lastOp.ret.response.totalCount = 0
    /\ Cardinality(items) = 4

\* s with ASCII upper-case letters folded to lower case
Lower(s) == [i \in 1..Len(s) |-> ToLower(s[i])]

\* the stored rows whose name contains text q as a case-insensitive substring,
\* restricted to a type unless type is null
NamedLike(tbl, q, type) ==
    {r \in tbl : (type = NULL \/ r.type = type) /\ Occurs(Lower(q), Lower(Chars(r.name)))}

\* the items of pages first..last of searchByName(q, type) with the given limit
\* parameter, concatenated
RECURSIVE SearchPages(_, _, _, _, _, _)
SearchPages(tbl, q, type, limitParam, first, last) ==
    IF first > last THEN <<>>
    ELSE ApiSearch(tbl, q, type, <<Digits[first + 1]>>, limitParam).response.items
            \o SearchPages(tbl, q, type, limitParam, first + 1, last)

\* C15: for a non-blank query q, searchByName returns exactly the rows whose name
\* contains trim(q) as a case-insensitive substring (restricted to type when given),
\* ordered by name when type is given and by (type, name) otherwise; totalCount is the
\* number of such rows, and pages 1..totalPages concatenated hold each of them once.
C15_SearchContract ==
    (lastOp.op = "searchByName" /\ ~Blank(lastOp.arg.q) /\ WellPaged(lastOp.arg)
        /\ lastOp.arg.type \in {NULL, "vod", "series"}) =>
        LET r == lastOp.ret.response
            expected == NamedLike(items, trim(lastOp.arg.q), lastOp.arg.type)
            all == SearchPages(items, lastOp.arg.q, lastOp.arg.type, lastOp.arg.limit,
                               1, r.pagination.totalPages)
        IN /\ r.status = 200
           /\ r.totalCount = Cardinality(expected)
           /\ ListsOnce(all, {Shown(x) : x \in expected})
           /\ \A i \in 1..(Len(all) - 1) :
                 ~SortsBefore(all[i + 1], all[i], lastOp.arg.type = NULL)

\* C16: when limit is omitted, listByType and searchByName return every matching row in
\* one response with totalPages = 1 and hasNextPage = hasPreviousPage = false.
C16_NoLimitReturnsAll ==
    /\ (lastOp.op = "listByType" /\ lastOp.ret.response.status = 200
            /\ lastOp.arg.limit = NoText) =>
          /\ ListsOnce(lastOp.ret.response.items,
                       {Shown(x) : x \in Matching(items, lastOp.arg.type, lastOp.arg.categoryId)})
          /\ lastOp.ret.response.pagination.totalPages = 1
          /\ ~lastOp.ret.response.pagination.hasNextPage
          /\ ~lastOp.ret.response.pagination.hasPreviousPage
    /\ (lastOp.op = "searchByName" /\ lastOp.ret.response.status = 200
            /\ lastOp.arg.limit = NoText /\ ~Blank(lastOp.arg.q)) =>
          /\ ListsOnce(lastOp.ret.response.items,
                       {Shown(x) : x \in SearchMatches(items, lastOp.arg.q, lastOp.arg.type)})
          /\ lastOp.ret.response.pagination.totalPages = 1
          /\ ~lastOp.ret.response.pagination.hasNextPage
          /\ ~lastOp.ret.response.pagination.hasPreviousPage

\* p is a decimal numeral: an optional minus sign, then digits only
IsNumeral(p) ==
    LET u == IF p # <<>> /\ Head(p) = "-" THEN Tail(p) ELSE p
    IN u # <<>> /\ \A i \in 1..Len(u) : u[i] \in Range(Digits)

\* a page or limit parameter that is given and is not a number >= 1
BadNumber(p) == p # NoText /\ (~IsNumeral(p) \/ parseInt(p).n < 1)

\* C17: a list or search request with page < 1, limit < 1, a non-numeric page or limit,
\* or a type other than vod/series is answered with an error and performs no read or
\* write on the store.
C17_InvalidInputRejected ==
    [][ ( /\ lastOp'.op \in {"listByType", "searchByName"}
          /\ \/ BadNumber(lastOp'.arg.limit)
             \/ BadNumber(lastOp'.arg.page)
             \/ lastOp'.arg.type \notin {"vod", "series", NULL}
             \/ (lastOp'.op = "listByType" /\ lastOp'.arg.type = NULL) )
        => /\ lastOp'.ret.response.status = 400
           /\ lastOp'.ret.calls = <<>>
           /\ items' = items
      ]_vars

\* the answer of getById(id, type) over table tbl
Lookup(tbl, id, type) == ApiItems(tbl, type, id, NULL, NoText, NoText).response

\* C18: getById(id, type) returns the row last upserted under (id, type) if it has not
\* been cleared since, and otherwise an absent result, never an exception; a row stored
\* under the same id with the other type is not returned.
C18_GetById ==
    [][ /\ (lastOp'.op = "getById" /\ lastOp'.arg.type \in ItemTypes) =>
              /\ items' = items
              /\ lastOp'.ret.response = Lookup(items, lastOp'.arg.id, lastOp'.arg.type)
              /\ IF \E r \in items : r.id = lastOp'.arg.id /\ r.type = lastOp'.arg.type
                 THEN /\ lastOp'.ret.response.status = 200
                      /\ \E r \in items :
                            /\ r.id = lastOp'.arg.id
                            /\ r.type = lastOp'.arg.type
                            /\ lastOp'.ret.response.item = Shown(r)
                 ELSE lastOp'.ret.response = [status |-> 404, error |-> "Item not found"]
        /\ (lastOp'.op = "storeItem" /\ lastOp'.val[1].type \in ItemTypes) =>
              Lookup(items', lastOp'.val[1].id, lastOp'.val[1].type)
                  = [status |-> 200, item |-> lastOp'.val[1]]
        /\ lastOp'.op = "clearItems" =>
              \A id \in IdParams : Lookup(items', id, lastOp'.arg).status = 404
        /\ \A id \in IdParams, type \in ItemTypes :
              ( /\ ~(lastOp'.op = "storeItem" /\ lastOp'.val[1].id = id
                        /\ lastOp'.val[1].type = type)
                /\ ~(lastOp'.op = "clearItems" /\ lastOp'.arg = type) )
              => Lookup(items', id, type) = Lookup(items, id, type)
      ]_vars

\* C18 witness: getById has returned the vod row that replaced an earlier row under its
\* id, while a series row is stored under the same id
C18_Witness ==
    /\ lastOp.op = "getById"
    /\ lastOp.arg.type = "vod"
    /\ lastOp.ret.response.status = 200
    /\ lastOp.ret.response.item.type = "vod"
    /\ lastOp.ret.response.item.name = "Beta"
    /\ \E r \in items : r.id = lastOp.arg.id /\ r.type = "series"

----------------------------------------------------------------------------
(* Properties of the opportunistic extraction *)

\* x || null
Nullable(x) == IF x \in {UNDEFINED, NULL, ""} THEN NULL ELSE x

\* the positions of listing s whose element has a numeric id (field stream_id for vod,
\* series_id for series) and a name
ValidAt(s, type) ==
    {i \in 1..Len(s) :
        /\ (IF type = "vod" THEN s[i].stream_id ELSE s[i].series_id).k = "number"
        /\ s[i].name # UNDEFINED}

\* the id under which element e is filed
FiledId(e, type) == ToString((IF type = "vod" THEN e.stream_id ELSE e.series_id).n)

\* row r holds the projection of element e
Projects(r, e, type) ==
    /\ r.id = FiledId(e, type)
    /\ r.type = type
    /\ r.name = e.name
    /\ r.poster_url = Nullable(IF type = "vod" THEN e.stream_icon ELSE e.cover)
    /\ r.category_id = Nullable(e.category_id)

\* the type of list served under a proxied url
ListTypeOf(url) == IF url = K_VOD THEN "vod" ELSE "series"

\* C19: extraction of a VOD-stream (resp. Series) list stores one item per element
\* that has a numeric stream_id (resp. series_id) and a name, with id = String(id), the
\* list's type, posterUrl = stream_icon (resp. cover) or null and categoryId =
\* String(category_id) or null; elements failing validation are dropped and do not
\* prevent the valid elements of the same payload from being stored.
C19_ExtractionProjects ==
    [][ ( /\ lastOp'.op = "extractAndStoreItems"
          /\ lastOp'.arg \in {K_VOD, K_SERIES}
          /\ lastOp'.val.isArray )
        => LET type == ListTypeOf(lastOp'.arg)
               s == lastOp'.val.elems
               valid == ValidAt(s, type)
               filed == {<<FiledId(s[i], type), type>> : i \in valid}
           IN /\ \A i \in valid :
                    /\ Cardinality(ItemRowsOf(items', <<FiledId(s[i], type), type>>)) = 1
                    /\ (\A j \in valid : j > i => FiledId(s[j], type) # FiledId(s[i], type))
                          => \E r \in items' : Projects(r, s[i], type)
              /\ {r \in items' : <<r.id, r.type>> \notin filed}
                    = {r \in items : <<r.id, r.type>> \notin filed}
      ]_vars

\* C19 witness: a VOD list holding an element without a name and a valid element has
\* just been extracted, and the valid element's row was written by that extraction
C19_Witness ==
    /\ lastOp.op = "extractAndStoreItems"
    /\ lastOp.arg = K_VOD
    /\ lastOp.val.isArray
    /\ Len(lastOp.val.elems) = 2
    /\ Cardinality(ValidAt(lastOp.val.elems, "vod")) = 1
    /\ lastOp.val.elems[1].name = UNDEFINED
    /\ now > 0
    /\ \E r \in items : Projects(r, lastOp.val.elems[2], "vod") /\ r.updated_at = now

----------------------------------------------------------------------------
(* Properties of the proxy route *)

\* C20: a failure of the opportunistic item batch write never reaches the proxy caller:
\* the proxied response (status and body) is the same as when the write succeeds, and
\* the response-cache entry written by setCache for that request is still present.
C20_WriteFailureHidden ==
    [][ (lastOp'.op = "proxyFinish" /\ lastOp'.val.fails) =>
            LET u == lastOp'.val.upstream IN
            /\ lastOp'.ret = ProxyFinish(cache, items, now, proxy.key, u, FALSE).response
            /\ (~u.threw /\ u.status = 200 /\ u.isJson) =>
                  /\ lastOp'.ret.status = u.status
                  /\ lastOp'.ret.body = u.body.json
                  /\ \E r \in RowsOf(cache', proxy.key) :
                        /\ r.created_at = now
                        /\ JSON_parse(r.value) = [ok |-> TRUE, val |-> u.body.json]
      ]_vars

\* C20 witness: a VOD list with a valid element was fetched, the batch write failed and
\* stored nothing, the caller got the 200 answer and the cache holds the entry
C20_Witness ==
    /\ lastOp.op = "proxyFinish"
    /\ lastOp.val.fails
    /\ lastOp.arg = K_VOD
    /\ lastOp.val.upstream.body.isArray
    /\ ValidAt(lastOp.val.upstream.body.elems, "vod") # {}
    /\ lastOp.ret.status = 200
    /\ lastOp.ret.xcache = "MISS"
    /\ RowsOf(cache, K_VOD) # {}
    /\ items = {}

----------------------------------------------------------------------------
(* Properties of the batch transaction *)

\* C21: storeItems writes a batch in one transaction: a reader on another connection
\* finds either none or all of the rows of the running batch, a batch with a statement
\* that fails leaves the table as it was, and a committed batch is the whole batch.
C21_BatchAtomic ==
    /\ (lastOp.op = "concurrentRead" /\ txn.pc # "idle") =>
          \/ lastOp.ret = ReadAll(txn.before, lastOp.arg)
          \/ lastOp.ret = ReadAll(storeItemsRows(txn.before, txn.batch, now), lastOp.arg)
    /\ lastOp.op = "rollbackStoreItems" => items = lastOp.pre
    /\ lastOp.op = "commitStoreItems" => items = storeItemsRows(lastOp.pre, lastOp.val, now)

\* a read between the two statements of a batch whose first row is already written
\* inside the transaction
C21_Witness ==
    /\ lastOp.op = "concurrentRead"
    /\ txn.pc = "open"
    /\ Len(txn.batch) = 2
    /\ Len(txn.pending) = 1
    /\ ReadAll(txn.rows, lastOp.arg) # ReadAll(txn.before, lastOp.arg)

----------------------------------------------------------------------------
(* Properties of the full resync *)

\* the positions of a fetched listing whose element has a usable id and a non-empty name
ResyncValidAt(s, type) ==
    {i \in 1..Len(s) :
        LET id == IF type = "vod" THEN s[i].stream_id ELSE s[i].series_id IN
        /\ id.k = "string" \/ (id.k = "number" /\ id.n # 0)
        /\ s[i].name \notin {UNDEFINED, NULL, ""}}

\* the type synchronized by a half of the resync
ResyncTypeOf(op) == IF op = "syncVod" THEN "vod" ELSE "series"

\* the rows of a type are the projections of the valid elements of listing s (of two
\* valid elements with the same id, the later one)
HoldsListing(tbl, s, type) ==
    LET valid == ResyncValidAt(s, type) IN
    /\ \A r \in tbl : r.type = type => \E i \in valid : Projects(r, s[i], type)
    /\ \A i \in valid :
          (\A j \in valid : j > i => FiledId(s[j], type) # FiledId(s[i], type))
             => \E r \in tbl : Projects(r, s[i], type)

\* C22: after the half of a full resync whose listing of type T was fetched and holds
\* a valid element, the rows of type T are exactly the projections of the valid
\* fetched elements (rows of T absent from the listing are gone) and the rows of the
\* other type are the ones that were there.
C22_ResyncReplaces ==
    ( /\ lastOp.op \in {"syncVod", "syncSeries"}
      /\ lastOp.val.ok
      /\ ResyncValidAt(lastOp.val.data, ResyncTypeOf(lastOp.op)) # {} )
    => LET type == ResyncTypeOf(lastOp.op) IN
       /\ HoldsListing(items, lastOp.val.data, type)
       /\ {r \in items : r.type # type} = {r \in lastOp.pre : r.type # type}

\* C22 witness: a VOD resync has just removed a VOD row that the fresh listing does not
\* hold, while a Series row was in the table
C22_Witness ==
    /\ lastOp.op = "syncVod"
    /\ lastOp.val.ok
    /\ ResyncValidAt(lastOp.val.data, "vod") # {}
    /\ \E r \in lastOp.pre :
          /\ r.type = "vod"
          /\ \A i \in ResyncValidAt(lastOp.val.data, "vod") :
                r.id # FiledId(lastOp.val.data[i], "vod")
          /\ r \notin items
    /\ \E r \in items : r.type = "series"

\* the counters reported for one type, against the listing that was fetched
CountsListing(result, outcome, type) ==
    outcome.ok =>
        /\ result.fetched = Len(outcome.data)
        /\ result.stored = Cardinality(ResyncValidAt(outcome.data, type))
        /\ result.stored < result.fetched => result.errors # <<>>

\* C23: in the sync result, fetched is the number of elements received, stored the
\* number that passed validation, the elements dropped by validation are reported in
\* the type's errors[], and success is true whenever stored > 0 for a type.
C23_SyncResultCounts ==
    /\ lastOp.op = "syncVod" => CountsListing(sync.results.vod, lastOp.val, "vod")
    /\ lastOp.op = "syncSeries" =>
          /\ CountsListing(lastOp.ret.results.series, lastOp.val, "series")
          /\ (lastOp.ret.results.vod.stored > 0 \/ lastOp.ret.results.series.stored > 0)
                => lastOp.ret.success

\* C24: a listing whose fetch fails is recorded in its type's errors[] and leaves the
\* table as it was; the handler goes on to the other type, which is fetched, cleared
\* and stored as usual, and returns the report.
C24_FetchFailureIsolated ==
    /\ (lastOp.op = "syncVod" /\ ~lastOp.val.ok) =>
          /\ sync.results.vod.errors # <<>>
          /\ items = lastOp.pre
          /\ sync.pc = "series"
    /\ (lastOp.op = "syncSeries" /\ ~lastOp.val.ok) =>
          /\ lastOp.ret.results.series.errors # <<>>
          /\ items = lastOp.pre
          /\ sync.pc = "idle"
    /\ ( /\ lastOp.op = "syncSeries"
         /\ lastOp.val.ok
         /\ lastOp.ret.results.vod.errors # <<>>
         /\ ResyncValidAt(lastOp.val.data, "series") # {} )
       => /\ HoldsListing(items, lastOp.val.data, "series")
          /\ lastOp.ret.results.series.stored
                = Cardinality(ResyncValidAt(lastOp.val.data, "series"))
          /\ {r \in items : r.type = "vod"} = {r \in lastOp.pre : r.type = "vod"}

\* C24 witness: the VOD fetch failed, its rows are still there, and the Series half of
\* the same resync stored its listing
C24_Witness ==
    /\ lastOp.op = "syncSeries"
    /\ lastOp.val.ok
    /\ lastOp.ret.results.vod.errors # <<>>
    /\ lastOp.ret.results.series.stored > 0
    /\ \E r \in items : r.type = "vod"
    /\ \E r \in items : r.type = "series" /\ r.updated_at = now /\ now > 0

----------------------------------------------------------------------------
(* Properties of the store under storage failures *)

\* the answer of a read endpoint that found nothing
EmptyAnswer(request, response) ==
    IF request.kind = "list" /\ request.id # NULL
    THEN response.status = 404
    ELSE /\ response.status = 200
         /\ response.items = <<>>
         /\ response.count = 0
         /\ response.totalCount = 0

\* C25: an operation during which the storage layer fails throws nothing and leaves
\* the tables as they were; getCache then returns null, setCache and clearCache do
\* nothing, getItems and searchItems return [], getItem null and the counts 0, and
\* the read endpoints answer with a well-formed empty response.
C25_StorageFailureDegrades ==
    /\ ( /\ lastOp.op \in {"getCacheFaulty", "setCacheFaulty", "clearCacheFaulty"}
         /\ lastOp.val # "none" )
       => /\ ~lastOp.ret.threw
          /\ lastOp.ret.ret = JNull
          /\ cache = lastOp.pre
    /\ (lastOp.op = "readItemsFaulty" /\ lastOp.val)
       => /\ ~lastOp.ret.threw
          /\ lastOp.ret.getItems = <<>>
          /\ lastOp.ret.searchItems = <<>>
          /\ lastOp.ret.getItem = NoItem
          /\ lastOp.ret.getItemCount = 0
          /\ lastOp.ret.getSearchCount = 0
          /\ items = lastOp.pre
    /\ (lastOp.op = "endpointFaulty" /\ lastOp.val)
       => /\ EmptyAnswer(lastOp.arg, lastOp.ret.response)
          /\ items = lastOp.pre

\* C25 witness: getCache of an entry that is stored and not expired, whose UPDATE
\* failed: the entry is still there and null was returned
C25_Witness ==
    /\ lastOp.op = "getCacheFaulty"
    /\ lastOp.val = "write"
    /\ lastOp.ret.ret = JNull
    /\ \E r \in cache :
          /\ r.key = lastOp.arg
          /\ ~(now > r.expires_at)
          /\ r.value # JSON_stringify(JNull)
    /\ items # {}

----------------------------------------------------------------------------
(* Properties of the proxy route: hits, misses and what is written *)

\* the entry stored under key k that has not expired at time t, if any
LiveEntries(c, k, t) == {r \in c : r.key = k /\ ~(t > r.expires_at)}

\* the proxied response is an OK JSON response
OkJson(upstream) == ~upstream.threw /\ upstream.status \in 200..299 /\ upstream.isJson

\* the answer to a request served from the cache
HitAnswer(value) == [status |-> 200, body |-> value, xcache |-> "HIT"]

\* C26: a proxied request without refresh whose key has an unexpired entry is answered
\* from the cache (X-Cache: HIT) without a fetch; otherwise the upstream is fetched
\* once and an OK JSON response is stored under the key and its items extracted before
\* it is returned (X-Cache: MISS), so that the same request issued next is a hit.
C26_HitOrMiss ==
    [][ /\ ( /\ lastOp'.op = "proxyStart"
             /\ ~lastOp'.val.forceRefresh
             /\ LiveEntries(cache, lastOp'.arg, now) # {} )
           => /\ lastOp'.ret = HitAnswer(stored[lastOp'.arg])
              /\ proxy' = ProxyIdle
        /\ ( /\ lastOp'.op = "proxyStart"
             /\ ~lastOp'.val.forceRefresh
             /\ LiveEntries(cache, lastOp'.arg, now) = {} )
           => proxy' = [pc |-> "fetching", key |-> lastOp'.arg]
        /\ (lastOp'.op = "proxyFinish" /\ OkJson(lastOp'.val.upstream))
           => /\ lastOp'.ret.xcache = "MISS"
              /\ lastOp'.ret.body = lastOp'.val.upstream.body.json
              /\ \E r \in LiveEntries(cache', proxy.key, now) :
                     r.value = JSON_stringify(lastOp'.val.upstream.body.json)
              /\ ~lastOp'.val.fails =>
                     items' = extractAndStoreItemsRows(items, lastOp'.val.upstream.body,
                                                       proxy.key, now)
        /\ ( /\ lastOp.op = "proxyFinish"
             /\ OkJson(lastOp.val.upstream)
             /\ lastOp'.op = "proxyStart"
             /\ lastOp'.arg = lastOp.arg
             /\ ~lastOp'.val.forceRefresh )
           => lastOp'.ret = HitAnswer(lastOp.ret.body)
      ]_vars

\* key k has an entry that is expired
HasExpired(k) == \E r \in cache : r.key = k /\ now > r.expires_at

UsesHandle(op) ==
    \/ op.op \in {"getCache", "setCache", "storeItem"}
    \/ op.op = "storeItems" /\ op.val # <<>>

\* C28: the handle is a lazily created singleton. At most one connection is open and
\* db holds it; a connection is opened only by an operation that finds db null (the
\* first use after start or after closeCache()), an open handle is reused; the schema
\* creation of a new connection alters no row, so an operation after closeCache()
\* re-opens the file and finds every row that was there before.
C28_LazySingletonHandle ==
    [][ /\ conns'.open = (IF db' = NoHandle THEN {} ELSE {db'})
        /\ conns'.created # conns.created
              => db = NoHandle /\ UsesHandle(lastOp') /\ db' \notin conns.open
        /\ (db # NoHandle /\ lastOp'.op # "closeCache") => db' = db
        /\ (db = NoHandle /\ UsesHandle(lastOp')) => db' # NoHandle
        /\ lastOp'.op = "closeCache" => db' = NoHandle /\ cache' = cache /\ items' = items
        /\ lastOp'.op \in {"getCache", "setCache"} => lastOp'.pre = cache
        /\ lastOp'.op = "setCache"
              => \A r \in cache : r.key # lastOp'.arg => r \in cache'
        /\ lastOp'.op = "storeItem"
              => \A r \in items : \E q \in items' : q.id = r.id /\ q.type = r.type
      ]_vars

\* C28 witness: after closeCache() a getCache has opened the second connection and
\* answered from an entry written through the first one
C28_Witness ==
    /\ lastOp.op = "getCache"
    /\ lastOp.ret # JNull
    /\ conns.fresh
    /\ db = 2
    /\ conns.open = {2}
    /\ items # {}

\* C29: only an OK JSON upstream response is written to the store. A response that is
\* not OK or not JSON, or a failed fetch, leaves every cache entry and every item row
\* as it was; a request with refresh=true reads no entry (no hit is counted, a live
\* entry is not answered) and goes to the upstream, and once the fetch has brought an
\* OK JSON response the entry of the key is written anew with a hit count of 0.
C29_OnlyOkJsonWritten ==
    [][ /\ (lastOp'.op = "proxyFinish" /\ ~OkJson(lastOp'.val.upstream))
              => cache' = cache /\ items' = items
        /\ (lastOp'.op = "proxyStart" /\ lastOp'.val.forceRefresh)
              => /\ proxy' = [pc |-> "fetching", key |-> lastOp'.arg]
                 /\ lastOp'.ret = JNull
                 /\ cache' \subseteq cache
                 /\ \A r \in cache : ~(now > r.expires_at) => r \in cache'
        /\ (lastOp'.op = "proxyFinish" /\ OkJson(lastOp'.val.upstream))
              => /\ \A r \in cache' :
                       r.key = lastOp'.arg
                          => /\ r.hit_count = 0
                             /\ r.value = JSON_stringify(lastOp'.val.upstream.body.json)
                             /\ r.created_at = now
                             /\ r.expires_at = now + getTTL(r.key)
                 /\ \E r \in cache' : r.key = lastOp'.arg
                 /\ \A r \in cache : r.key # lastOp'.arg => r \in cache'
      ]_vars

\* C29 witness: a refresh=true request for a key whose entry was live and had served a
\* hit got a 404 JSON listing from the upstream: the entry is still the one that was
\* there and no item row exists
C29_Witness ==
    /\ lastOp.op = "proxyFinish"
    /\ lastOp.val.upstream.status = 404
    /\ lastOp.val.upstream.isJson
    /\ ExtractWrites(lastOp.val.upstream.body, lastOp.arg)
    /\ ~lastOp.val.fails
    /\ items = {}
    /\ \E r \in cache : r.key = lastOp.arg /\ r.hit_count > 0 /\ ~(now > r.expires_at)

\* C30: no sliding expiration. A value that getCache returns comes from a row whose
\* created_at + TTL(key) has not passed; created_at and expires_at of a row are those
\* of the setCache that wrote it; and no other operation (hit, sweep, invalidation,
\* clearing, statistics) adds a row or changes the value, created_at or expires_at of
\* one: a value set at time t is not returned after t + TTL(key) unless set again.
C30_NoSlidingExpiration ==
    [][ /\ (lastOp'.op = "getCache" /\ lastOp'.ret # JNull)
              => \E r \in cache :
                    /\ r.key = lastOp'.arg
                    /\ now <= r.created_at + getTTL(r.key)
                    /\ JSON_parse(r.value) = [ok |-> TRUE, val |-> lastOp'.ret]
        /\ lastOp'.op = "setCache"
              => \A r \in cache' :
                    r.key = lastOp'.arg
                       => r.created_at = now /\ r.expires_at = now + getTTL(r.key)
        /\ \A q \in cache' :
              \/ lastOp'.op = "setCache" /\ q.key = lastOp'.arg
              \/ \E r \in cache :
                    /\ r.key = q.key
                    /\ r.value = q.value
                    /\ r.created_at = q.created_at
                    /\ r.expires_at = q.expires_at
                    /\ (lastOp'.op # "getCache" \/ r.key # lastOp'.arg) => r = q
      ]_vars

\* C30 witness: an entry written after the clock had advanced is read at the last
\* millisecond of its life, and its expiry is still created_at + TTL(key)
C30_Witness ==
    /\ lastOp.op = "getCache"
    /\ lastOp.ret # JNull
    /\ \E r \in cache :
          /\ r.key = lastOp.arg
          /\ r.hit_count = MaxHits
          /\ r.last_accessed = now
          /\ now = r.expires_at
          /\ r.expires_at = r.created_at + getTTL(r.key)
          /\ r.created_at > 0

\* C31: whatever JSON value an OK response carried (null included), the entry written
\* for it parses back to that value, and the same request issued before the entry
\* expires is answered with that value from the cache and starts no fetch.
C31_EveryValueServedAsHit ==
    [][ /\ (lastOp'.op = "proxyFinish" /\ OkJson(lastOp'.val.upstream))
           => \E r \in LiveEntries(cache', lastOp'.arg, now) :
                 JSON_parse(r.value) = [ok |-> TRUE, val |-> lastOp'.val.upstream.body.json]
        /\ (lastOp'.op = "proxyStart" /\ ~lastOp'.val.forceRefresh)
           => \A r \in LiveEntries(cache, lastOp'.arg, now) :
                 JSON_parse(r.value).ok
                    => /\ lastOp'.ret = HitAnswer(JSON_parse(r.value).val)
                       /\ proxy' = ProxyIdle
      ]_vars

\* the rows of one type
OfType(tbl, type) == {r \in tbl : r.type = type}

\* C32: after a half of the full resync that reports stored = n > 0 for its type, the
\* items table holds exactly n rows of that type.
C32_StoredIsRowCount ==
    /\ (lastOp.op = "syncVodFaulty" /\ sync.results.vod.stored > 0)
          => Cardinality(OfType(items, "vod")) = sync.results.vod.stored
    /\ (lastOp.op = "syncSeriesFaulty" /\ lastOp.ret.results.series.stored > 0)
          => Cardinality(OfType(items, "series")) = lastOp.ret.results.series.stored

\* the type synchronized by a half of the resync whose batch write may fail
FaultyTypeOf(op) == IF op = "syncVodFaulty" THEN "vod" ELSE "series"

\* C33: a full resync of a type is all-or-nothing: when the batch write that follows
\* clearItems(type) fails, the rows of the type that were there before are still there,
\* and a type that had rows is never left without any.
C33_ResyncAllOrNothing ==
    (lastOp.op \in {"syncVodFaulty", "syncSeriesFaulty"} /\ lastOp.arg[1])
    => LET type == FaultyTypeOf(lastOp.op) IN
       /\ OfType(lastOp.pre, type) \subseteq items
       /\ OfType(lastOp.pre, type) # {} => OfType(items, type) # {}

\* C34: a listing that was fetched but is empty or holds no valid element leaves the
\* table as it was (nothing cleared, nothing written) and is reported with stored = 0;
\* when neither type stored anything the report says success = false.
C34_NothingValidNothingTouched ==
    /\ ( /\ lastOp.op \in {"syncVodFaulty", "syncSeriesFaulty"}
         /\ lastOp.val.ok
         /\ ResyncValidAt(lastOp.val.data, FaultyTypeOf(lastOp.op)) = {} )
       => /\ items = lastOp.pre
          /\ lastOp.op = "syncVodFaulty" => sync.results.vod.stored = 0
          /\ lastOp.op = "syncSeriesFaulty" =>
                /\ lastOp.ret.results.series.stored = 0
                /\ lastOp.ret.results.vod.stored = 0 => ~lastOp.ret.success
    /\ lastOp.op = "syncSeriesFaulty" =>
          (lastOp.ret.success <=> (lastOp.ret.results.vod.stored > 0
                                      \/ lastOp.ret.results.series.stored > 0))

\* C34 witness: both listings of a resync were fetched and non-empty but held no valid
\* element; the Series rows of an earlier resync are untouched and success is false
C34_Witness ==
    /\ lastOp.op = "syncSeriesFaulty"
    /\ lastOp.val.ok
    /\ Len(lastOp.val.data) > 0
    /\ ResyncValidAt(lastOp.val.data, "series") = {}
    /\ lastOp.ret.results.vod.fetched > 0
    /\ lastOp.ret.results.vod.stored = 0
    /\ ~lastOp.ret.success
    /\ OfType(items, "series") # {}
    /\ OfType(items, "vod") # {}
    /\ items = lastOp.pre

\* ?page=p for a page number p
PageParam(p) == <<Digits[p + 1]>>

\* the items of page p of the listing or search that request arg asked for, on table tbl
PageOf(tbl, op, arg, p) ==
    IF op = "listByType"
    THEN ApiItems(tbl, arg.type, NULL, arg.categoryId, arg.limit, PageParam(p)).response.items
    ELSE ApiSearch(tbl, arg.q, arg.type, PageParam(p), arg.limit).response.items

\* C35: in a listByType or searchByName response computed with a limit, hasNextPage
\* = true implies that page + 1, requested with no write in between, returns at least
\* one item, and every page from 1 to totalPages is non-empty.
C35_PagesNonEmpty ==
    ( /\ lastOp.op \in {"listByType", "searchByName"}
      /\ lastOp.arg.limit \in GoodLimits \ {NoText}
      /\ lastOp.arg.page \in GoodPages
      /\ lastOp.ret.response.status = 200 )
    => LET pg == lastOp.ret.response.pagination IN
       /\ pg.hasNextPage => PageOf(items, lastOp.op, lastOp.arg, pg.page + 1) # <<>>
       /\ \A p \in 1..pg.totalPages : PageOf(items, lastOp.op, lastOp.arg, p) # <<>>

\* what the hook exposes of a search result
Exposed(h) == [items |-> h.items, pagination |-> h.pagination, totalCount |-> h.totalCount]

\* C36: the items, pagination and totalCount exposed by useSearch belong to the most
\* recently set query: a search that settles for a text other than the current query
\* leaves them as they are, and once the query is blank and the items are empty they
\* stay empty for as long as the query stays blank.
C36_StateBelongsToQuery ==
    [][ /\ (lastOp'.op = "searchSettles" /\ lastOp'.arg # hook.query)
           => Exposed(hook') = Exposed(hook)
        /\ (IsBlankQuery(hook.query) /\ hook.items = <<>> /\ IsBlankQuery(hook'.query))
           => hook'.items = <<>>
      ]_vars

====
